---- MODULE Spec2Model ----
(***************************************************************************)
(* The audit aggregation pipeline of the GitHub developer profiler:        *)
(* GitHubService.PerformFullAudit and the helpers it calls                 *)
(* (internal/services/github_service.go).  One audit is one sequential     *)
(* process; every remote call of the GitHub client is one step, so that    *)
(* the context's cancellation can fall between any two calls.              *)
(*                                                                         *)
(* Pointers to dto.Repository are indices into the sequence repositories:  *)
(* the slices originalRepos, forkedRepos and analysisRepos hold indices,   *)
(* and a write through one slice is seen through all of them, as in the    *)
(* code.  A file path is a sequence of tokens: name segments, "." and "/". *)
(*                                                                         *)
(* Spec is the whole audit.  Smaller specifications run one part of the   *)
(* program on more inputs: SelectionSpec the partition and recency         *)
(* selection, OrderSpec the audit of three repositories of which two are   *)
(* selected, SamplerSpec the file sampling on the process-wide generator,  *)
(* ControllerSpec the analysis run of MainController around the audit      *)
(* (ControllerFairSpec with its goroutine scheduled, DialogSpec with the   *)
(* configuration dialog saved meanwhile), ScorerSpec the two content       *)
(* scorers, StoreSpec the configuration file written and read back.        *)
(***************************************************************************)
EXTENDS Integers, Sequences, FiniteSets, TLC

\* ------------------------------------------------------------------ bounds
MaxRepos == 2      \* repositories the remote returns for the user, all pages
PageLen == 1       \* repositories the remote puts on one page of the list
MaxCommits == 2    \* commits the remote returns for one repository
MaxTime == 3       \* instants are 1..MaxTime, in years; the audit runs at MaxTime

Times == 1..MaxTime
Now == MaxTime

Min(a, b) == IF a < b THEN a ELSE b

Range(s) == {s[k] : k \in 1..Len(s)}

\* s[:n] of Go for 0 <= n <= len(s)
Take(s, n) == SubSeq(s, 1, n)

RECURSIVE SumSeq(_)
SumSeq(s) == IF s = <<>> THEN 0 ELSE Head(s) + SumSeq(Tail(s))

\* ------------------------------------------------------------ configuration
\* dto.GitHubConfig values the service is constructed with.  The integer
\* fields are whatever strconv.Atoi accepted in the configuration window,
\* negative numbers and zero included.
Tokens == {"", "ghp_secret"}
SampledRepoCounts == {-1, 0, 1, 2}
SampleFileCounts == {-1, 0, 1, 2}
AnalysisYearsSet == {1, 2}
RandomSeeds == {7, 42}

BaseConfig ==
  [Token |-> "ghp_secret", SampledRepoCount |-> 1, CommitsPerRepo |-> 50,
   SampleFileCount |-> 2, AnalysisYears |-> 2, IncludePrivateRepo |-> FALSE,
   RandomSeed |-> 42, SaveDebugJSON |-> FALSE]

\* the configurations the audits of the model run with
GitHubConfigs ==
  {[BaseConfig EXCEPT !.SampledRepoCount = n] : n \in SampledRepoCounts}
  \cup {[BaseConfig EXCEPT !.SampleFileCount = n] : n \in SampleFileCounts}
  \cup {[BaseConfig EXCEPT !.Token = t, !.AnalysisYears = y] :
          t \in Tokens, y \in AnalysisYearsSet}
  \cup {[BaseConfig EXCEPT !.RandomSeed = r] : r \in RandomSeeds}

\* ------------------------------------------------------------ file classifier
\* strings.ToLower on the name segments the model uses
ToLower(tok) ==
  CASE tok = "GO" -> "go"
    [] tok = "CC" -> "cc"
    [] tok = "README" -> "readme"
    [] OTHER -> tok

LowerAll(toks) == [k \in 1..Len(toks) |-> ToLower(toks[k])]

\* position of the last "." token of a path, 0 when there is none
LastDot(path) ==
  LET dots == {k \in 1..Len(path) : path[k] = "."}
  IN IF dots = {} THEN 0 ELSE CHOOSE k \in dots : \A m \in dots : m <= k

codeExtensions ==
  {<<".", "go">>, <<".", "py">>, <<".", "js">>, <<".", "ts">>,
   <<".", "java">>, <<".", "cpp">>, <<".", "c">>, <<".", "cs">>,
   <<".", "rb">>, <<".", "php">>, <<".", "rs">>, <<".", "kt">>,
   <<".", "swift">>, <<".", "scala">>, <<".", "r">>, <<".", "m">>,
   <<".", "h">>, <<".", "hpp">>, <<".", "cc">>, <<".", "cxx">>}

\* parts := strings.Split(path, "."); fewer than two parts is no code file;
\* ext := "." + strings.ToLower(parts[len(parts)-1])
isCodeFile(path) ==
  IF LastDot(path) = 0
  THEN FALSE
  ELSE <<".">> \o LowerAll(SubSeq(path, LastDot(path) + 1, Len(path)))
         \in codeExtensions

\* filepath.Ext: the suffix from the final dot of the final "/"-separated
\* element, empty when that element has no dot
FilepathExt(path) ==
  LET slashes == {k \in 1..Len(path) : path[k] = "/"}
      lastSlash == IF slashes = {} THEN 0
                   ELSE CHOOSE k \in slashes : \A m \in slashes : m <= k
  IN IF LastDot(path) > lastSlash
     THEN SubSeq(path, LastDot(path), Len(path))
     ELSE <<>>

languages ==
  [ext \in {<<".", "go">>, <<".", "py">>, <<".", "js">>, <<".", "ts">>,
            <<".", "java">>, <<".", "cpp">>, <<".", "c">>, <<".", "cs">>,
            <<".", "rb">>, <<".", "php">>, <<".", "rs">>, <<".", "kt">>,
            <<".", "swift">>, <<".", "scala">>, <<".", "r">>, <<".", "m">>,
            <<".", "h">>, <<".", "hpp">>} |->
     CASE ext = <<".", "go">> -> "Go"
       [] ext = <<".", "py">> -> "Python"
       [] ext = <<".", "js">> -> "JavaScript"
       [] ext = <<".", "ts">> -> "TypeScript"
       [] ext = <<".", "java">> -> "Java"
       [] ext = <<".", "cpp">> -> "C++"
       [] ext = <<".", "c">> -> "C"
       [] ext = <<".", "cs">> -> "C#"
       [] ext = <<".", "rb">> -> "Ruby"
       [] ext = <<".", "php">> -> "PHP"
       [] ext = <<".", "rs">> -> "Rust"
       [] ext = <<".", "kt">> -> "Kotlin"
       [] ext = <<".", "swift">> -> "Swift"
       [] ext = <<".", "scala">> -> "Scala"
       [] ext = <<".", "r">> -> "R"
       [] ext = <<".", "m">> -> "Objective-C"
       [] ext = <<".", "h">> -> "C/C++ Header"
       [] OTHER -> "C++ Header"]

detectLanguage(path) ==
  LET ext == LowerAll(FilepathExt(path))
  IN IF ext \in DOMAIN languages THEN languages[ext] ELSE "Unknown"

\* ------------------------------------------------------------------ sampler
\* math/rand stands behind rand.Seed and rand.Shuffle; the generator is a
\* deterministic function of its seed, here a small congruential one.
RngSeed(seed) == seed % 16

RngNext(x) == (5 * x + 3) % 16

Swap(s, a, b) == [s EXCEPT ![a] = s[b], ![b] = s[a]]

\* rand.Shuffle: for i := n-1; i > 0; i-- { j := Int31n(i+1); swap(i, j) },
\* positions counted from 1 here
RECURSIVE ShuffleFrom(_, _, _)
ShuffleFrom(s, i, x) ==
  IF i <= 1
  THEN s
  ELSE LET x1 == RngNext(x)
           j == (x1 % i) + 1
       IN ShuffleFrom(Swap(s, i, j), i - 1, x1)

\* rand.Seed(int64(seed)); rand.Shuffle(len(s), swap)
Shuffle(s, seed) == ShuffleFrom(s, Len(s), RngSeed(seed))

\* the states of the generator
RngStates == 0..15

\* the state the generator is left in by ShuffleFrom(s, i, x)
RECURSIVE RngAfter(_, _)
RngAfter(i, x) == IF i <= 1 THEN x ELSE RngAfter(i - 1, RngNext(x))

\* ------------------------------------------------------------ the remote side
\* What the GitHub API may answer.  A repository of the list response:
RawRepos == [Fork : BOOLEAN, UpdatedAt : Times, Stars : {3}]

\* the language histograms of ListLanguages, already in the order
\* GetRepositoryLanguages returns them (byte count descending)
LanguageLists == {<<"Go", "C">>}

\* the files of one commit as GetCommit reports them
CommitFiles == {<<"main.go">>}

Blob(path) == [Type |-> "blob", Path |-> path]

\* the recursive trees of GetTree
Trees ==
  {<<Blob(<<"README", ".", "md">>), [Type |-> "tree", Path |-> <<"pkg", ".", "go">>]>>,
   <<Blob(<<"main", ".", "GO">>), Blob(<<"Makefile">>),
     Blob(<<"lib", "/", "b", ".", "cc">>)>>}

\* ------------------------------------------------------------------- state
VARIABLES
  config,           \* s.config, the configuration the service was built with
  cancelled,        \* ctx.Done() is closed
  pc,               \* the call PerformFullAudit is about to make
  calls,            \* the remote calls made so far, with their outcome
  userInfo,         \* PerformFullAudit: userInfo
  page,             \* ListRepositories: opt.Page
  allRepos,         \* ListRepositories: allRepos
  repositories,     \* PerformFullAudit: repositories (the records pointed to)
  originalRepos,    \* PerformFullAudit: originalRepos
  forkedRepos,      \* PerformFullAudit: forkedRepos
  analysisRepos,    \* PerformFullAudit: analysisRepos
  idx,              \* position of the range loop over analysisRepos
  pending,          \* GetRepositoryCommits: commits still to be detailed
  commitDetails,    \* GetRepositoryCommits: commitDetails
  codeFiles,        \* GetRepositoryContents: codeFiles still to be analysed
  fileAnalyses,     \* GetRepositoryContents: fileAnalyses
  allCommits,       \* PerformFullAudit: allCommits
  allFileAnalyses,  \* PerformFullAudit: allFileAnalyses
  analyzedRepos,    \* PerformFullAudit: analyzedRepos
  reposWithErrors,  \* PerformFullAudit: reposWithErrors
  result,           \* the *dto.AuditResult returned
  err,              \* the error returned, "" for nil
  rng,              \* math/rand: the state of the package's global generator
  samples,          \* the file samplings made so far: input and selection
  ui,               \* MainWindowUI: button, progress bar, status, results, dialogs
  ctrl,             \* MainController: its configuration and its goroutine
  scorer,           \* a content handed to the two scorers, and their labels
  store             \* the configuration file, and what was saved to and loaded from it

vars ==
  <<config, cancelled, pc, calls, userInfo, page, allRepos, repositories,
    originalRepos, forkedRepos, analysisRepos, idx, pending, commitDetails,
    codeFiles, fileAnalyses, allCommits, allFileAnalyses, analyzedRepos,
    reposWithErrors, result, err, rng, samples, ui, ctrl, scorer, store>>

\* the generator and the record of its use
samplerVars == <<rng, samples>>

\* the window and its controller
ctrlVars == <<ui, ctrl>>

\* what no analysis run touches
offlineVars == <<scorer, store>>

\* a nil *dto.AuditResult
NoResult == [nil |-> TRUE]

\* a nil *dto.UserInfo
NoUser == [nil |-> TRUE]

Call(op, repo, arg, ok) == [op |-> op, repo |-> repo, arg |-> arg, ok |-> ok]

\* A remote call made with a context that is already cancelled fails; any
\* call may fail for other reasons.  Outcomes(S) are the answers a call with
\* the successful answers S can get now.
CanSucceed == ~cancelled

\* ------------------------------------------------------- window and controller
\* what the results pane shows: a text, and the audit result it renders
ResultsPlaceholder ==
  [text |-> "Analysis results will appear here...", data |-> NoResult]

\* string(jsonData) with jsonData the json.MarshalIndent of an audit result
JSONResults(r) == [text |-> "json", data |-> r]

ResultsComplete == [text |-> "**Analysis Complete!**", data |-> NoResult]

\* the window after initializeComponents
UIIdle ==
  [analyzeEnabled |-> TRUE, progress |-> FALSE, saveEnabled |-> FALSE,
   status |-> "Ready to analyze GitHub profiles",
   results |-> ResultsPlaceholder, dialogs |-> <<>>]

\* the window while the goroutine of analyzeGitHubProfile is in the audit
UIAuditing ==
  [UIIdle EXCEPT !.analyzeEnabled = FALSE, !.progress = TRUE,
                 !.status = "Fetching user information..."]

\* what the controller holds of the configuration: ctrl.githubService's
\* configuration, ctrl.config.GitHub.SaveDebugJSON, ctrl.config.OpenAI.APIKey
\* and whether ctrl.openaiService has a client
Held(github, debug, key, client) ==
  [GitHub |-> github, SaveDebugJSON |-> debug, APIKey |-> key, client |-> client]

\* the controller with no analysis running, as Run leaves it: the services
\* made from the loaded configuration.  pressed is what the controller held
\* when the analyze button was last tapped, debugJSON whether the last run
\* called saveDebugJSON, runs and saves the analyses and the dialog saves so
\* far.
Idle(key, runs) ==
  [pc |-> "idle", username |-> "", APIKey |-> key, client |-> key # "",
   SaveDebugJSON |-> config.SaveDebugJSON,
   pressed |-> Held(config, config.SaveDebugJSON, key, key # ""),
   debugJSON |-> FALSE, llmErr |-> "", runs |-> runs, saves |-> 0]

\* the controller while its goroutine is in PerformFullAudit
Auditing(username, key, runs) ==
  [Idle(key, runs) EXCEPT !.pc = "audit", !.username = username]

\* no content has been scored
NotScored == [content |-> <<>>, scored |-> FALSE, quality |-> "", complexity |-> ""]

\* a nil *Config
NoConfig == [nil |-> TRUE]

\* no configuration file exists, nothing was saved or loaded
NoStore ==
  [file |-> [exists |-> FALSE], saved |-> NoConfig, loaded |-> NoConfig,
   err |-> "", saves |-> 0]

OfflineInit == scorer = NotScored /\ store = NoStore

Init ==
  /\ config \in GitHubConfigs
  /\ cancelled = FALSE
  /\ pc = "GetUser"
  /\ calls = <<>>
  /\ userInfo = NoUser
  /\ page = 0
  /\ allRepos = <<>>
  /\ repositories = <<>>
  /\ originalRepos = <<>>
  /\ forkedRepos = <<>>
  /\ analysisRepos = <<>>
  /\ idx = 0
  /\ pending = <<>>
  /\ commitDetails = <<>>
  /\ codeFiles = <<>>
  /\ fileAnalyses = <<>>
  /\ allCommits = <<>>
  /\ allFileAnalyses = <<>>
  /\ analyzedRepos = <<>>
  /\ reposWithErrors = <<>>
  /\ result = NoResult
  /\ err = ""
  /\ rng = 1     \* any state: rand.Seed comes before every use
  /\ samples = <<>>
  /\ ui = UIAuditing
  /\ ctrl = Auditing("octocat", "", 1)
  /\ OfflineInit

\* a fetch error that is swallowed: the audit goes on to build a result
ReturnErrorSwallowed(msg) ==
  /\ pc' = "Stats"
  /\ UNCHANGED <<result, err>>

\* return nil, fmt.Errorf(...)
ReturnError(msg) ==
  /\ pc' = "returned"
  /\ result' = NoResult
  /\ err' = msg

\* the steps of the audit that are a remote call
RemoteCalls ==
  {"GetUser", "ListRepositories", "ListLanguages", "ListCommits", "GetCommit",
   "GetTree", "GetContents"}

\* the context passed to PerformFullAudit is cancelled while the audit still
\* has a remote call to make: the next call is made with a cancelled context
Cancel ==
  /\ pc \in RemoteCalls
  /\ ~cancelled
  /\ cancelled' = TRUE
  /\ UNCHANGED <<samplerVars, ctrlVars, offlineVars>>
  /\ UNCHANGED <<config, pc, calls, userInfo, page, allRepos, repositories,
                 originalRepos, forkedRepos, analysisRepos, idx, pending,
                 commitDetails, codeFiles, fileAnalyses, allCommits,
                 allFileAnalyses, analyzedRepos, reposWithErrors, result, err>>

\* userInfo, err := s.GetUser(ctx, username)
GetUser ==
  /\ pc = "GetUser"
  /\ \/ /\ CanSucceed
        /\ calls' = Append(calls, Call("Users.Get", 0, 0, TRUE))
        /\ userInfo' = [Username |-> "octocat"]
        /\ pc' = "ListRepositories"
        /\ UNCHANGED <<result, err>>
     \/ /\ calls' = Append(calls, Call("Users.Get", 0, 0, FALSE))
        /\ ReturnError("failed to get user info")
        /\ UNCHANGED userInfo
  /\ UNCHANGED <<samplerVars, ctrlVars, offlineVars>>
  /\ UNCHANGED <<config, cancelled, page, allRepos, repositories,
                 originalRepos, forkedRepos, analysisRepos, idx, pending,
                 commitDetails, codeFiles, fileAnalyses, allCommits,
                 allFileAnalyses, analyzedRepos, reposWithErrors>>

\* a conversion that fills UserCommits, with more than ten commits
NewRepositoryWithUserCommits(raw, name) ==
  [Name |-> name, Fork |-> raw.Fork, UpdatedAt |-> raw.UpdatedAt,
   Stars |-> raw.Stars, UserCommits |-> 11, LanguagesUsed |-> <<>>,
   FileCount |-> 0, CommitCount |-> 0, IncludeAnalysis |-> FALSE,
   IsSignificant |-> FALSE]

\* the dto.Repository built from one entry of allRepos; its name is its
\* place in the list, so names are distinct
NewRepository(raw, name) ==
  [Name |-> name, Fork |-> raw.Fork, UpdatedAt |-> raw.UpdatedAt,
   Stars |-> raw.Stars, UserCommits |-> 0, LanguagesUsed |-> <<>>,
   FileCount |-> 0, CommitCount |-> 0, IncludeAnalysis |-> FALSE,
   IsSignificant |-> FALSE]

\* the sequences over S of length n
RECURSIVE SeqsOfLen(_, _)
SeqsOfLen(S, n) ==
  IF n = 0 THEN {<<>>}
  ELSE {Append(s, x) : s \in SeqsOfLen(S, n - 1), x \in S}

\* The pages the remote answers with: a page holds at most PageLen
\* repositories, the user has at most MaxRepos, and a response names a next
\* page only when its own page is full and more repositories follow.
Pages ==
  LET room == Min(PageLen, MaxRepos - Len(allRepos))
      least == IF page = 0 THEN 0 ELSE 1
  IN UNION {SeqsOfLen(RawRepos, n) : n \in least..room}

NextPages(repos, cur) ==
  IF Len(repos) = PageLen /\ Len(allRepos) + Len(repos) < MaxRepos
  THEN {0, cur + 1}
  ELSE {0}

\* a page error that ends the loop and goes on with the pages fetched so far
PageFailedKeepsFetched ==
  /\ repositories' = [k \in 1..Len(allRepos) |-> NewRepository(allRepos[k], k)]
  /\ pc' = "Filter"
  /\ UNCHANGED <<page, allRepos, result, err>>

\* if err != nil { return nil, fmt.Errorf("failed to list repositories") } in
\* ListRepositories, and the return of PerformFullAudit that follows it
PageFailed ==
  /\ ReturnError("failed to get repositories")
  /\ UNCHANGED <<page, allRepos, repositories>>

\* one request of the loop of ListRepositories, and on the last page the
\* conversion loop and the return to PerformFullAudit
ListRepositories ==
  /\ pc = "ListRepositories"
  /\ LET cur == IF page = 0 THEN 1 ELSE page
     IN \/ /\ CanSucceed
           /\ \E repos \in Pages :
              \E NextPage \in NextPages(repos, cur) :
                /\ calls' = Append(calls, Call("Repositories.List", 0, cur, TRUE))
                /\ allRepos' = allRepos \o repos
                /\ IF NextPage = 0
                   THEN /\ repositories' =
                             [k \in 1..Len(allRepos') |-> NewRepository(allRepos'[k], k)]
                        /\ pc' = "Filter"
                        /\ UNCHANGED page
                   ELSE /\ page' = NextPage
                        /\ UNCHANGED <<repositories, pc>>
           /\ UNCHANGED <<result, err>>
        \/ /\ calls' = Append(calls, Call("Repositories.List", 0, cur, FALSE))
           /\ PageFailed
  /\ UNCHANGED <<samplerVars, ctrlVars, offlineVars>>
  /\ UNCHANGED <<config, cancelled, userInfo, originalRepos, forkedRepos,
                 analysisRepos, idx, pending, commitDetails, codeFiles,
                 fileAnalyses, allCommits, allFileAnalyses, analyzedRepos,
                 reposWithErrors>>

\* the orders of s when it is left unsorted: every arrangement
Unsorted(s) ==
  {q \in [1..Len(s) -> Range(s)] : \A a, b \in 1..Len(s) : a # b => q[a] # q[b]}

\* the orders sort.Slice may leave s in: sort.Slice is not stable, so any
\* arrangement with no later-updated repository behind an earlier one
SortedByUpdatedAt(s) ==
  {q \in [1..Len(s) -> Range(s)] :
     /\ \A a, b \in 1..Len(s) : a # b => q[a] # q[b]
     /\ \A a, b \in 1..Len(s) :
          a < b => ~(repositories[q[b]].UpdatedAt > repositories[q[a]].UpdatedAt)}

\* cutoffDate := time.Now().AddDate(-s.config.AnalysisYears, 0, 0)
cutoffDate == Now - config.AnalysisYears

Indices == [k \in 1..Len(repositories) |-> k]

\* if repo.Fork { forkedRepos = append(forkedRepos, repo) }
IsFork(k) == repositories[k].Fork

\* a partition that files only the recent repositories as original
IsOriginalAndRecent(k) ==
  ~repositories[k].Fork /\ repositories[k].UpdatedAt > Now - config.AnalysisYears

\* else { originalRepos = append(originalRepos, repo) }
IsOriginal(k) == ~repositories[k].Fork

\* a filter that lets the repository updated at the cutoff itself through
IsRecentOrAtCutoff(k) == repositories[k].UpdatedAt >= Now - config.AnalysisYears

\* repo.UpdatedAt.After(cutoffDate)
IsRecent(k) == repositories[k].UpdatedAt > cutoffDate

\* the partition loop and the recency selection of PerformFullAudit, which
\* run between the repository list and the first per-repository call
Filter ==
  /\ pc = "Filter"
  /\ originalRepos' = SelectSeq(Indices, IsOriginal)
  /\ forkedRepos' = SelectSeq(Indices, IsFork)
  /\ LET candidates == SelectSeq(Indices, IsRecent)
         n == config.SampledRepoCount
     IN IF Len(candidates) > n
        THEN \E sorted \in SortedByUpdatedAt(candidates) :
               IF n < 0
               THEN \* analysisRepos[:n] with n < 0: slice bounds out of range
                    /\ analysisRepos' = sorted
                    /\ pc' = "panicked"
                    /\ UNCHANGED idx
               ELSE /\ analysisRepos' = Take(sorted, n)
                    /\ IF n = 0
                       THEN pc' = "Stats" /\ UNCHANGED idx
                       ELSE pc' = "ListLanguages" /\ idx' = 1
        ELSE /\ analysisRepos' = candidates
             /\ IF candidates = <<>>
                THEN pc' = "Stats" /\ UNCHANGED idx
                ELSE pc' = "ListLanguages" /\ idx' = 1
  /\ UNCHANGED <<samplerVars, ctrlVars, offlineVars>>
  /\ UNCHANGED <<config, cancelled, calls, userInfo, page, allRepos,
                 repositories, pending, commitDetails, codeFiles, fileAnalyses,
                 allCommits, allFileAnalyses, analyzedRepos, reposWithErrors,
                 result, err>>

\* a loop that walks analysisRepos from its end
repoFromEnd == analysisRepos[Len(analysisRepos) + 1 - idx]

\* the repository the range loop is at, and its name
repo == analysisRepos[idx]

repoName == repositories[repo].Name

\* the loop over analysisRepos goes to its next element, or ends
NextRepo ==
  IF idx < Len(analysisRepos)
  THEN pc' = "ListLanguages" /\ idx' = idx + 1
  ELSE pc' = "Stats" /\ UNCHANGED idx

\* a language error handled like a commit error: recorded, repository skipped
LanguagesFetchedOrSkip(ok, langs) ==
  IF ok
  THEN /\ repositories' = [repositories EXCEPT ![repo].LanguagesUsed = langs]
       /\ pc' = "ListCommits"
       /\ UNCHANGED <<idx, reposWithErrors>>
  ELSE /\ reposWithErrors' = Append(reposWithErrors, repoName)
       /\ NextRepo
       /\ UNCHANGED repositories

\* if err == nil { repo.LanguagesUsed = languages }, then on to the commits
LanguagesFetched(ok, langs) ==
  /\ IF ok
     THEN repositories' = [repositories EXCEPT ![repo].LanguagesUsed = langs]
     ELSE UNCHANGED repositories
  /\ pc' = "ListCommits"
  /\ UNCHANGED <<idx, reposWithErrors>>

\* languages, err := s.GetRepositoryLanguages(ctx, username, repo.Name)
ListLanguages ==
  /\ pc = "ListLanguages"
  /\ \E ok \in {b \in BOOLEAN : b => CanSucceed} :
     \E langs \in IF ok THEN LanguageLists ELSE {<<>>} :
       /\ calls' = Append(calls, Call("ListLanguages", repoName, 0, ok))
       /\ LanguagesFetched(ok, langs)
  /\ UNCHANGED <<samplerVars, ctrlVars, offlineVars>>
  /\ UNCHANGED <<config, cancelled, userInfo, page, allRepos, originalRepos,
                 forkedRepos, analysisRepos, pending, commitDetails,
                 codeFiles, fileAnalyses, allCommits, allFileAnalyses,
                 analyzedRepos, result, err>>

\* how many commits one ListCommits page of PerPage: count can hold
CommitCounts ==
  IF config.CommitsPerRepo > 0
  THEN 0..Min(MaxCommits, config.CommitsPerRepo)
  ELSE 0..MaxCommits

\* a commit error that ends the loop over the repositories (break)
CommitsFailedBreak ==
  /\ reposWithErrors' = Append(reposWithErrors, repoName)
  /\ pc' = "Stats"
  /\ UNCHANGED <<idx, pending, commitDetails>>

\* if err != nil { reposWithErrors = append(reposWithErrors, repo.Name); continue }
CommitsFailed ==
  /\ reposWithErrors' = Append(reposWithErrors, repoName)
  /\ NextRepo
  /\ UNCHANGED <<pending, commitDetails>>

\* an empty commit list recorded as an error of the repository
CommitsListedEmptyIsError(n) ==
  /\ commitDetails' = <<>>
  /\ pending' = [k \in 1..n |-> k]
  /\ IF n = 0
     THEN reposWithErrors' = Append(reposWithErrors, repoName) /\ NextRepo
     ELSE pc' = "GetCommit" /\ UNCHANGED <<idx, reposWithErrors>>

\* ListCommits answered with n commits: with none GetRepositoryCommits
\* returns an empty list and PerformFullAudit continues with the next
\* repository (if len(commits) == 0 { continue })
CommitsListed(n) ==
  /\ commitDetails' = <<>>
  /\ pending' = [k \in 1..n |-> k]
  /\ IF n = 0
     THEN NextRepo
     ELSE pc' = "GetCommit" /\ UNCHANGED idx
  /\ UNCHANGED reposWithErrors

\* commits, err := s.GetRepositoryCommits(...): the ListCommits request, and
\* what PerformFullAudit does when GetRepositoryCommits returns right after it
ListCommits ==
  /\ pc = "ListCommits"
  /\ \/ /\ CanSucceed
        /\ \E n \in CommitCounts :
             /\ calls' = Append(calls, Call("ListCommits", repoName, n, TRUE))
             /\ CommitsListed(n)
     \/ /\ calls' = Append(calls, Call("ListCommits", repoName, 0, FALSE))
        /\ CommitsFailed
  /\ UNCHANGED <<samplerVars, ctrlVars, offlineVars>>
  /\ UNCHANGED <<config, cancelled, userInfo, page, allRepos, repositories,
                 originalRepos, forkedRepos, analysisRepos, codeFiles,
                 fileAnalyses, allCommits, allFileAnalyses, analyzedRepos,
                 result, err>>

\* a failed detail fetch handled as an error of the repository: recorded,
\* and the repository skipped with the commits fetched so far dropped
GetCommitOrSkip ==
  /\ pc = "GetCommit"
  /\ LET sha == Head(pending)
     IN \E ok \in {b \in BOOLEAN : b => CanSucceed} :
        \E files \in IF ok THEN CommitFiles ELSE {<<>>} :
          LET detail == [Repo |-> repoName, SHA |-> sha, FilesChanged |-> files]
              details == Append(commitDetails, detail)
          IN /\ calls' = Append(calls, Call("GetCommit", repoName, sha, ok))
             /\ pending' = Tail(pending)
             /\ IF ~ok
                THEN /\ reposWithErrors' = Append(reposWithErrors, repoName)
                     /\ NextRepo
                     /\ UNCHANGED <<commitDetails, allCommits, repositories>>
                ELSE /\ commitDetails' = details
                     /\ UNCHANGED <<idx, reposWithErrors>>
                     /\ IF Tail(pending) = <<>>
                        THEN /\ allCommits' = allCommits \o details
                             /\ repositories' =
                                  [repositories EXCEPT ![repo].CommitCount = Len(details)]
                             /\ pc' = "GetTree"
                        ELSE UNCHANGED <<allCommits, repositories, pc>>
  /\ UNCHANGED <<samplerVars, ctrlVars, offlineVars>>
  /\ UNCHANGED <<config, cancelled, userInfo, page, allRepos, originalRepos,
                 forkedRepos, analysisRepos, codeFiles, fileAnalyses,
                 allFileAnalyses, analyzedRepos, result, err>>

\* one round of the loop of GetRepositoryCommits: the GetCommit request of
\* the next commit; after the last one GetRepositoryCommits returns and
\* PerformFullAudit appends the commits and sets repo.CommitCount
GetCommit ==
  /\ pc = "GetCommit"
  /\ LET sha == Head(pending)
     IN \E ok \in {b \in BOOLEAN : b => CanSucceed} :
        \E files \in IF ok THEN CommitFiles ELSE {<<>>} :
          LET detail == [Repo |-> repoName, SHA |-> sha, FilesChanged |-> files]
              details == Append(commitDetails, detail)
          IN /\ calls' = Append(calls, Call("GetCommit", repoName, sha, ok))
             /\ pending' = Tail(pending)
             /\ commitDetails' = details
             /\ IF Tail(pending) = <<>>
                THEN /\ allCommits' = allCommits \o details
                     /\ repositories' =
                          [repositories EXCEPT ![repo].CommitCount = Len(details)]
                     /\ pc' = "GetTree"
                ELSE UNCHANGED <<allCommits, repositories, pc>>
  /\ UNCHANGED <<samplerVars, ctrlVars, offlineVars>>
  /\ UNCHANGED <<config, cancelled, userInfo, page, allRepos, originalRepos,
                 forkedRepos, analysisRepos, idx, codeFiles, fileAnalyses,
                 allFileAnalyses, analyzedRepos, reposWithErrors, result, err>>

IsCodeBlob(entry) == entry.Type = "blob" /\ isCodeFile(entry.Path)

\* the end of the round without repo.IncludeAnalysis = true
RepoAnalyzedUnmarked(analyses) ==
  /\ allFileAnalyses' = allFileAnalyses \o analyses
  /\ repositories' = [repositories EXCEPT ![repo].FileCount = Len(analyses)]
  /\ analyzedRepos' = Append(analyzedRepos, repoName)
  /\ NextRepo

\* a tree error that skips the repository without recording it
TreeFailedSilently ==
  /\ NextRepo
  /\ UNCHANGED <<reposWithErrors, codeFiles, fileAnalyses, allFileAnalyses,
                 repositories, analyzedRepos>>

\* a tree error that is recorded without the continue: the round goes on
\* and files the repository as analysed too
TreeFailedNoContinue ==
  /\ reposWithErrors' = Append(reposWithErrors, repoName)
  /\ repositories' = [repositories EXCEPT ![repo].IncludeAnalysis = TRUE]
  /\ analyzedRepos' = Append(analyzedRepos, repoName)
  /\ NextRepo
  /\ UNCHANGED <<codeFiles, fileAnalyses, allFileAnalyses>>

\* if err != nil { reposWithErrors = append(reposWithErrors, repo.Name); continue }
\* after GetRepositoryContents
TreeFailed ==
  /\ reposWithErrors' = Append(reposWithErrors, repoName)
  /\ NextRepo
  /\ UNCHANGED <<codeFiles, fileAnalyses, allFileAnalyses, repositories,
                 analyzedRepos>>

\* the end of the round without repo.FileCount = len(fileAnalyses)
RepoAnalyzedNoFileCount(analyses) ==
  /\ allFileAnalyses' = allFileAnalyses \o analyses
  /\ repositories' = [repositories EXCEPT ![repo].IncludeAnalysis = TRUE]
  /\ analyzedRepos' = Append(analyzedRepos, repoName)
  /\ NextRepo

\* the end of the round with the analyses put in front of the earlier ones
RepoAnalyzedInFront(analyses) ==
  /\ allFileAnalyses' = analyses \o allFileAnalyses
  /\ repositories' = [repositories EXCEPT ![repo].FileCount = Len(analyses),
                                          ![repo].IncludeAnalysis = TRUE]
  /\ analyzedRepos' = Append(analyzedRepos, repoName)
  /\ NextRepo

\* the end of one round of the loop of PerformFullAudit after
\* GetRepositoryContents returned analyses without an error
RepoAnalyzed(analyses) ==
  /\ allFileAnalyses' = allFileAnalyses \o analyses
  /\ repositories' = [repositories EXCEPT ![repo].FileCount = Len(analyses),
                                          ![repo].IncludeAnalysis = TRUE]
  /\ analyzedRepos' = Append(analyzedRepos, repoName)
  /\ NextRepo

\* a sampler that shuffles with the generator as it finds it, unseeded
SampleCodeFilesUnseeded(code, cfg) ==
  IF Len(code) > cfg.SampleFileCount
  THEN [files |-> IF cfg.SampleFileCount < 0
                  THEN ShuffleFrom(code, Len(code), rng)
                  ELSE Take(ShuffleFrom(code, Len(code), rng), cfg.SampleFileCount),
        panics |-> cfg.SampleFileCount < 0,
        rng |-> RngAfter(Len(code), rng)]
  ELSE [files |-> code, panics |-> FALSE, rng |-> rng]

\* a sampler that shuffles whatever the number of code files is
SampleCodeFilesAlwaysShuffled(code, cfg) ==
  [files |-> IF Len(code) > cfg.SampleFileCount /\ cfg.SampleFileCount >= 0
             THEN Take(Shuffle(code, cfg.RandomSeed), cfg.SampleFileCount)
             ELSE Shuffle(code, cfg.RandomSeed),
   panics |-> Len(code) > cfg.SampleFileCount /\ cfg.SampleFileCount < 0,
   rng |-> RngAfter(Len(code), RngSeed(cfg.RandomSeed))]

\* if len(codeFiles) > s.config.SampleFileCount { rand.Seed; rand.Shuffle;
\* codeFiles = codeFiles[:s.config.SampleFileCount] } for a service with the
\* configuration cfg: the files left in codeFiles, whether the slice
\* expression panics (a negative bound), and the generator afterwards
SampleCodeFiles(code, cfg) ==
  IF Len(code) > cfg.SampleFileCount
  THEN [files |-> IF cfg.SampleFileCount < 0
                  THEN Shuffle(code, cfg.RandomSeed)
                  ELSE Take(Shuffle(code, cfg.RandomSeed), cfg.SampleFileCount),
        panics |-> cfg.SampleFileCount < 0,
        rng |-> RngAfter(Len(code), RngSeed(cfg.RandomSeed))]
  ELSE [files |-> code, panics |-> FALSE, rng |-> rng]

\* what one sampling is remembered by
SampleRecord(code, cfg, sampled) ==
  [files |-> code, seed |-> cfg.RandomSeed, n |-> cfg.SampleFileCount,
   selected |-> sampled.files, panics |-> sampled.panics]

\* fileAnalyses, err := s.GetRepositoryContents(...): the GetTree request,
\* the filter and the sampling of the code files
GetTree ==
  /\ pc = "GetTree"
  /\ \/ /\ CanSucceed
        /\ \E tree \in Trees :
             LET code == SelectSeq(tree, IsCodeBlob)
                 sampled == SampleCodeFiles(code, config)
             IN /\ calls' = Append(calls, Call("GetTree", repoName, Len(code), TRUE))
                /\ fileAnalyses' = <<>>
                /\ codeFiles' = sampled.files
                /\ rng' = sampled.rng
                /\ samples' = Append(samples, SampleRecord(code, config, sampled))
                /\ IF sampled.panics
                   THEN \* codeFiles[:n] with n < 0: slice bounds out of range
                        /\ pc' = "panicked"
                        /\ UNCHANGED <<idx, allFileAnalyses, repositories, analyzedRepos>>
                   ELSE IF sampled.files = <<>>
                        THEN RepoAnalyzed(<<>>)
                        ELSE /\ pc' = "GetContents"
                             /\ UNCHANGED <<idx, allFileAnalyses, repositories,
                                            analyzedRepos>>
        /\ UNCHANGED reposWithErrors
     \/ /\ calls' = Append(calls, Call("GetTree", repoName, 0, FALSE))
        /\ TreeFailed
        /\ UNCHANGED samplerVars
  /\ UNCHANGED <<ctrlVars, offlineVars>>
  /\ UNCHANGED <<config, cancelled, userInfo, page, allRepos, originalRepos,
                 forkedRepos, analysisRepos, pending, commitDetails, allCommits,
                 result, err>>

\* analyzeFile: the dto.FileAnalysis of a file whose content arrived
NewFileAnalysis(file) ==
  [Repo |-> repoName, Path |-> file.Path, Language |-> detectLanguage(file.Path)]

\* a file loop that keeps an entry for a file whose content did not arrive
CollectedAlways(ok, file) == Append(fileAnalyses, NewFileAnalysis(file))

\* analysis := s.analyzeFile(...); if analysis != nil { fileAnalyses =
\* append(fileAnalyses, analysis) }: analyzeFile returned nil unless ok
Collected(ok, file) ==
  IF ok THEN Append(fileAnalyses, NewFileAnalysis(file)) ELSE fileAnalyses

\* one round of the file loop of GetRepositoryContents: analyzeFile with its
\* GetContents request (a failed request, a missing content or a failed
\* decoding all make it return nil); after the last file
\* GetRepositoryContents returns
GetContents ==
  /\ pc = "GetContents"
  /\ LET file == Head(codeFiles)
     IN \E ok \in {b \in BOOLEAN : b => CanSucceed} :
          LET analyses == Collected(ok, file)
          IN /\ calls' = Append(calls, Call("GetContents", repoName, file.Path, ok))
             /\ codeFiles' = Tail(codeFiles)
             /\ fileAnalyses' = analyses
             /\ IF Tail(codeFiles) = <<>>
                THEN RepoAnalyzed(analyses)
                ELSE UNCHANGED <<pc, idx, allFileAnalyses, repositories, analyzedRepos>>
  /\ UNCHANGED <<samplerVars, ctrlVars, offlineVars>>
  /\ UNCHANGED <<config, cancelled, userInfo, page, allRepos, originalRepos,
                 forkedRepos, analysisRepos, pending, commitDetails, allCommits,
                 reposWithErrors, result, err>>

\* repo.Fork && repo.UserCommits > 10
Significant(r) == r.Fork /\ r.UserCommits > 10

\* the statistics loop: the records after it
WithSignificance ==
  [k \in 1..Len(repositories) |->
     IF Significant(repositories[k])
     THEN [repositories[k] EXCEPT !.IsSignificant = TRUE]
     ELSE repositories[k]]

\* a copy of *s.config that keeps the token
getUnsanitizedConfig == config

\* getSanitizedConfig: a copy of *s.config with the token replaced
getSanitizedConfig == [config EXCEPT !.Token = "[REDACTED]"]

\* the records a slice of pointers shows
Deref(ptrs, records) == [k \in 1..Len(ptrs) |-> records[ptrs[k]]]

\* the number of repositories that were analysed instead
AnalysisReposSucceeded == Len(analyzedRepos)

\* AnalysisRepos: len(analysisRepos)
AnalysisReposCount == Len(analysisRepos)

\* result := &dto.AuditResult{...}
BuildResult(records) ==
  [UserInfo |-> userInfo,
   RepoStats |->
     [Statistics |->
        [TotalRepos |-> Len(records),
         OriginalRepos |-> Len(originalRepos),
         ForkedRepos |-> Len(forkedRepos),
         SignificantForks |-> Cardinality({k \in 1..Len(records) : Significant(records[k])}),
         TotalStars |-> SumSeq([k \in 1..Len(records) |-> records[k].Stars]),
         AnalysisRepos |-> AnalysisReposCount],
      OriginalRepos |-> Deref(originalRepos, records),
      ForkedRepos |-> Deref(forkedRepos, records)],
   FileAnalysis |-> allFileAnalyses,
   CommitDetails |-> allCommits,
   AuditParameters |-> getSanitizedConfig,
   AnalysisSummary |->
     [ReposAnalyzedForCode |-> analyzedRepos,
      ReposWithErrors |-> reposWithErrors,
      ReposWithoutUserCommits |-> <<>>,
      TotalReposAttempted |-> Len(analysisRepos),
      SuccessfulAnalysisCount |-> Len(analyzedRepos)]]

\* the statistics loop, the construction of the result and return result, nil
Stats ==
  /\ pc = "Stats"
  /\ repositories' = WithSignificance
  /\ result' = BuildResult(WithSignificance)
  /\ err' = ""
  /\ pc' = "returned"
  /\ UNCHANGED <<samplerVars, ctrlVars, offlineVars>>
  /\ UNCHANGED <<config, cancelled, calls, userInfo, page, allRepos,
                 originalRepos, forkedRepos, analysisRepos, idx, pending,
                 commitDetails, codeFiles, fileAnalyses, allCommits,
                 allFileAnalyses, analyzedRepos, reposWithErrors>>

Next ==
  \/ Cancel
  \/ GetUser
  \/ ListRepositories
  \/ Filter
  \/ ListLanguages
  \/ ListCommits
  \/ GetCommit
  \/ GetTree
  \/ GetContents
  \/ Stats

Spec == Init /\ [][Next]_vars

\* ------------------------------------------------------ the selection alone
\* The partition and the recency selection on the repository lists one page
\* of the remote can hold, stars and fork flags varying.
MaxListed == 3     \* repositories on the single page of the list

ListedRepos == [Fork : BOOLEAN, UpdatedAt : Times, Stars : {0, 9}]

SelectionConfigs ==
  {[BaseConfig EXCEPT !.SampledRepoCount = n, !.AnalysisYears = y] :
     n \in SampledRepoCounts, y \in AnalysisYearsSet}

\* PerformFullAudit after GetUser and ListRepositories have returned
SelectionInit ==
  /\ config \in SelectionConfigs
  /\ cancelled = FALSE
  /\ pc = "Filter"
  /\ calls = <<Call("Users.Get", 0, 0, TRUE), Call("Repositories.List", 0, 1, TRUE)>>
  /\ userInfo = [Username |-> "octocat"]
  /\ page = 0
  /\ \E n \in 0..MaxListed : allRepos \in SeqsOfLen(ListedRepos, n)
  /\ repositories = [k \in 1..Len(allRepos) |-> NewRepository(allRepos[k], k)]
  /\ originalRepos = <<>>
  /\ forkedRepos = <<>>
  /\ analysisRepos = <<>>
  /\ idx = 0
  /\ pending = <<>>
  /\ commitDetails = <<>>
  /\ codeFiles = <<>>
  /\ fileAnalyses = <<>>
  /\ allCommits = <<>>
  /\ allFileAnalyses = <<>>
  /\ analyzedRepos = <<>>
  /\ reposWithErrors = <<>>
  /\ result = NoResult
  /\ err = ""
  /\ rng = 1
  /\ samples = <<>>
  /\ ui = UIAuditing
  /\ ctrl = Auditing("octocat", "", 1)
  /\ OfflineInit

SelectionNext == Filter

SelectionSpec == SelectionInit /\ [][SelectionNext]_vars

\* ---------------------------------------------- the audit after the listing
\* PerformFullAudit from the partition on, for a user whose repositories came
\* on one page and were all updated after the cutoff: with SampledRepoCount
\* below their number the recency sort decides which are processed, and in
\* which order.
MaxOrdered == 3    \* repositories of the user

OrderedRepos == [Fork : BOOLEAN, UpdatedAt : {Now - 1, Now}, Stars : {3}]

OrderInit ==
  /\ config = [BaseConfig EXCEPT !.SampledRepoCount = 2, !.CommitsPerRepo = 1]
  /\ cancelled = FALSE
  /\ pc = "Filter"
  /\ calls = <<Call("Users.Get", 0, 0, TRUE), Call("Repositories.List", 0, 1, TRUE)>>
  /\ userInfo = [Username |-> "octocat"]
  /\ page = 0
  /\ allRepos \in SeqsOfLen(OrderedRepos, MaxOrdered)
  /\ repositories = [k \in 1..Len(allRepos) |-> NewRepository(allRepos[k], k)]
  /\ originalRepos = <<>>
  /\ forkedRepos = <<>>
  /\ analysisRepos = <<>>
  /\ idx = 0
  /\ pending = <<>>
  /\ commitDetails = <<>>
  /\ codeFiles = <<>>
  /\ fileAnalyses = <<>>
  /\ allCommits = <<>>
  /\ allFileAnalyses = <<>>
  /\ analyzedRepos = <<>>
  /\ reposWithErrors = <<>>
  /\ result = NoResult
  /\ err = ""
  /\ rng = 1
  /\ samples = <<>>
  /\ ui = UIAuditing
  /\ ctrl = Auditing("octocat", "", 1)
  /\ OfflineInit

OrderNext ==
  \/ Filter
  \/ ListLanguages
  \/ ListCommits
  \/ GetCommit
  \/ GetTree
  \/ GetContents
  \/ Stats

OrderSpec == OrderInit /\ [][OrderNext]_vars

\* ------------------------------------------------------- the sampling alone
\* The sampling block of GetRepositoryContents run again and again in one
\* process, by services built with different configurations, on the
\* generator the process shares.
MaxSamples == 3    \* executions of the sampling block

FileA == Blob(<<"a", ".", "go">>)

FileB == Blob(<<"lib", "/", "b", ".", "cc">>)

FileC == Blob(<<"c", ".", "py">>)

\* the code files of a tree, in the order the tree lists them
CodeFileLists ==
  {<<FileA, FileB, FileC>>, <<FileC, FileA, FileB>>, <<FileA, FileB>>, <<FileC>>}

SamplerConfigs ==
  {[BaseConfig EXCEPT !.RandomSeed = r, !.SampleFileCount = n] :
     r \in RandomSeeds, n \in SampleFileCounts}

\* a process whose generator is in any state when the first sampling starts
SamplerInit ==
  /\ config = BaseConfig
  /\ cancelled = FALSE
  /\ pc = "GetTree"
  /\ calls = <<>>
  /\ userInfo = NoUser
  /\ page = 0
  /\ allRepos = <<>>
  /\ repositories = <<>>
  /\ originalRepos = <<>>
  /\ forkedRepos = <<>>
  /\ analysisRepos = <<>>
  /\ idx = 0
  /\ pending = <<>>
  /\ commitDetails = <<>>
  /\ codeFiles = <<>>
  /\ fileAnalyses = <<>>
  /\ allCommits = <<>>
  /\ allFileAnalyses = <<>>
  /\ analyzedRepos = <<>>
  /\ reposWithErrors = <<>>
  /\ result = NoResult
  /\ err = ""
  /\ rng \in RngStates
  /\ samples = <<>>
  /\ ui = UIAuditing
  /\ ctrl = Auditing("octocat", "", 1)
  /\ OfflineInit

\* lines 202-209 of GetRepositoryContents, for the code files of some tree
\* and the configuration of the service that runs them
SampleFiles ==
  /\ pc = "GetTree"
  /\ Len(samples) < MaxSamples
  /\ \E cfg \in SamplerConfigs : \E code \in CodeFileLists :
       LET sampled == SampleCodeFiles(code, cfg)
       IN /\ config' = cfg
          /\ codeFiles' = sampled.files
          /\ rng' = sampled.rng
          /\ samples' = Append(samples, SampleRecord(code, cfg, sampled))
          /\ pc' = IF sampled.panics THEN "panicked" ELSE "GetTree"
  /\ UNCHANGED <<ctrlVars, offlineVars>>
  /\ UNCHANGED <<cancelled, calls, userInfo, page, allRepos, repositories,
                 originalRepos, forkedRepos, analysisRepos, idx, pending,
                 commitDetails, fileAnalyses, allCommits, allFileAnalyses,
                 analyzedRepos, reposWithErrors, result, err>>

SamplerNext == SampleFiles

SamplerSpec == SamplerInit /\ [][SamplerNext]_vars

\* ------------------------------------------------------ the analysis run
\* MainController.analyzeGitHubProfile and the goroutine it starts.  The
\* audit is one step here: PerformFullAudit returns an error, or the result
\* for a user.
MaxRuns == 2       \* taps on the analyze button

\* the texts of the username entry
Usernames == {"", "  ", "octocat"}

\* strings.TrimSpace on them
TrimSpace(text) == IF text = "  " THEN "" ELSE text

\* ctrl.config.OpenAI.APIKey as loaded
APIKeys == {"", "sk-key"}

ControllerInit ==
  /\ config \in {[BaseConfig EXCEPT !.SaveDebugJSON = b] : b \in BOOLEAN}
  /\ cancelled = FALSE
  /\ pc = "GetUser"
  /\ calls = <<>>
  /\ userInfo = NoUser
  /\ page = 0
  /\ allRepos = <<>>
  /\ repositories = <<>>
  /\ originalRepos = <<>>
  /\ forkedRepos = <<>>
  /\ analysisRepos = <<>>
  /\ idx = 0
  /\ pending = <<>>
  /\ commitDetails = <<>>
  /\ codeFiles = <<>>
  /\ fileAnalyses = <<>>
  /\ allCommits = <<>>
  /\ allFileAnalyses = <<>>
  /\ analyzedRepos = <<>>
  /\ reposWithErrors = <<>>
  /\ result = NoResult
  /\ err = ""
  /\ rng = 1
  /\ samples = <<>>
  /\ ui = UIIdle
  /\ \E key \in APIKeys : ctrl = Idle(key, 0)
  /\ OfflineInit

\* what the analysis run leaves unchanged: the state inside the audit
auditVars ==
  <<config, cancelled, pc, calls, userInfo, page, allRepos, repositories,
    originalRepos, forkedRepos, analysisRepos, idx, pending, commitDetails,
    codeFiles, fileAnalyses, allCommits, allFileAnalyses, analyzedRepos,
    reposWithErrors, rng, samples>>

\* dialog.ShowError and dialog.ShowInformation
ShowError(w, msg) ==
  [w EXCEPT !.dialogs = Append(@, [kind |-> "error", text |-> msg])]

ShowInformation(w, title) ==
  [w EXCEPT !.dialogs = Append(@, [kind |-> "information", text |-> title])]

\* the deferred function without SetAnalyzeButtonEnabled(true)
DeferredHidesOnly(w) == [w EXCEPT !.progress = FALSE]

\* defer func() { ctrl.ui.HideProgress(); ctrl.ui.SetAnalyzeButtonEnabled(true) }()
Deferred(w) == [w EXCEPT !.progress = FALSE, !.analyzeEnabled = TRUE]

\* the goroutine returns
GoroutineEnds == ctrl' = [ctrl EXCEPT !.pc = "idle"]

\* the result of the audit of a user without repositories
ResultFor(username) ==
  [BuildResult(<<>>) EXCEPT !.UserInfo = [Username |-> username]]

\* the analyze button is tapped: analyzeGitHubProfile up to the go statement
AnalyzeTapped ==
  /\ ctrl.pc = "idle"
  /\ ui.analyzeEnabled
  /\ ctrl.runs < MaxRuns
  /\ \E text \in Usernames :
       IF TrimSpace(text) = ""
       THEN /\ ui' = ShowError(ui, "please enter a GitHub username")
            /\ ctrl' = [ctrl EXCEPT !.runs = @ + 1]
       ELSE /\ ui' = [ui EXCEPT !.analyzeEnabled = FALSE, !.progress = TRUE,
                                !.status = "Starting analysis..."]
            /\ ctrl' = [ctrl EXCEPT !.pc = "audit", !.username = TrimSpace(text),
                                    !.pressed = Held(config, ctrl.SaveDebugJSON,
                                                     ctrl.APIKey, ctrl.client),
                                    !.debugJSON = FALSE,
                                    !.llmErr = "", !.runs = @ + 1]
  /\ UNCHANGED <<auditVars, offlineVars, result, err>>

\* result, err := ctrl.githubService.PerformFullAudit(ctx, username)
PerformAudit ==
  /\ ctrl.pc = "audit"
  /\ \/ /\ result' = NoResult
        /\ err' = "failed to get user info"
        /\ ui' = Deferred(ShowError([ui EXCEPT !.status = "Analysis failed"],
                                     "analysis failed"))
        /\ GoroutineEnds
     \/ /\ result' = ResultFor(ctrl.username)
        /\ err' = ""
        /\ ui' = [ui EXCEPT !.status = "Generating JSON report..."]
        /\ ctrl' = [ctrl EXCEPT !.pc = "report"]
  /\ UNCHANGED <<auditVars, offlineVars>>

\* the fallback at the end of the goroutine: the JSON report is shown
ShowJSON(w) ==
  Deferred([w EXCEPT !.status = IF ctrl.APIKey = ""
                                THEN "Analysis completed - Configure OpenAI for LLM analysis"
                                ELSE "Analysis completed with JSON report",
                     !.results = JSONResults(result),
                     !.saveEnabled = TRUE])

\* json.MarshalIndent, the debug JSON file when it is enabled (its failure
\* is only printed), and the test whether OpenAI is configured
GenerateReport ==
  /\ ctrl.pc = "report"
  /\ \/ /\ ui' = Deferred(ShowError([ui EXCEPT !.status = "Failed to generate report"],
                                     "failed to generate report"))
        /\ GoroutineEnds
     \/ \E saved \in {b \in BOOLEAN : ~ctrl.SaveDebugJSON => b} :
          IF ctrl.APIKey # ""
          THEN /\ ui' = [ui EXCEPT !.status = "Performing LLM analysis..."]
               /\ ctrl' = [ctrl EXCEPT !.pc = "llm",
                                       !.debugJSON = ctrl.SaveDebugJSON]
          ELSE /\ ui' = ShowJSON(ui)
               /\ ctrl' = [ctrl EXCEPT !.pc = "idle",
                                       !.debugJSON = ctrl.SaveDebugJSON]
  /\ UNCHANGED <<auditVars, offlineVars, result, err>>

\* a failure of the LLM analysis that ends the run with an error dialog
LLMFailedAborts(msg) ==
  /\ ui' = Deferred(ShowError(ui, "LLM Analysis Failed"))
  /\ ctrl' = [ctrl EXCEPT !.pc = "idle", !.llmErr = msg]

\* if err != nil { SetStatus; dialog.ShowInformation } and on to the fallback
LLMFailed(msg) ==
  /\ ui' = ShowJSON(ShowInformation(
             [ui EXCEPT !.status = "LLM analysis failed, showing JSON report"],
             "LLM Analysis Failed"))
  /\ ctrl' = [ctrl EXCEPT !.pc = "idle", !.llmErr = msg]

\* markdownAnalysis, err := ctrl.openaiService.AnalyzeGitHubData(result)
AnalyzeGitHubData ==
  /\ ctrl.pc = "llm"
  /\ IF ~ctrl.client
     THEN LLMFailed("OpenAI client not initialized - API key required")
     ELSE \/ LLMFailed("OpenAI API error")
          \/ LLMFailed("no response from OpenAI")
          \/ /\ ui' = [ui EXCEPT !.status =
                         "Converting markdown to HTML and generating report..."]
             /\ ctrl' = [ctrl EXCEPT !.pc = "html"]
  /\ UNCHANGED <<auditVars, offlineVars, result, err>>

\* ConvertMarkdownToHTML and err = ctrl.saveHTMLReport(htmlContent, username)
SaveHTMLReport ==
  /\ ctrl.pc = "html"
  /\ \/ ui' = Deferred(ShowError(ui, "failed to save HTML report"))
     \/ ui' = Deferred([ui EXCEPT !.status =
                          "LLM analysis completed successfully - HTML report saved",
                        !.results = ResultsComplete,
                        !.saveEnabled = TRUE])
  /\ GoroutineEnds
  /\ UNCHANGED <<auditVars, offlineVars, result, err>>

ControllerNext ==
  \/ AnalyzeTapped
  \/ PerformAudit
  \/ GenerateReport
  \/ AnalyzeGitHubData
  \/ SaveHTMLReport

ControllerSpec == ControllerInit /\ [][ControllerNext]_vars

\* ------------------------------------------------------------ the scorers
\* assessCodeQuality and assessComplexity on a content.  A content is a
\* sequence of tokens: the line feed, a blank, the comment openers "//" and
\* "#", the letter "x", the keyword "IF" in capitals, and "X121", a run of
\* 121 letters "x".
MaxContent == 3    \* tokens of a content

LF == "\n"

ContentTokens == {LF, " ", "//", "#", "x", "IF", "X121"}

Contents == UNION {SeqsOfLen(ContentTokens, n) : n \in 0..MaxContent}

\* len of a token, in bytes
TokenLen(tok) ==
  CASE tok = "X121" -> 121
    [] tok \in {"//", "IF"} -> 2
    [] OTHER -> 1

LineLen(line) == SumSeq([k \in 1..Len(line) |-> TokenLen(line[k])])

\* strings.Split(content, "\n"): the pieces between the line feeds, one more
\* than there are line feeds, so one empty piece for the empty content
Split(content) ==
  LET feeds == {k \in 1..Len(content) : content[k] = LF}
      cut(n) == IF n = 0 THEN 0
                ELSE IF n > Cardinality(feeds) THEN Len(content) + 1
                ELSE CHOOSE k \in feeds : Cardinality({m \in feeds : m <= k}) = n
  IN [n \in 1..(Cardinality(feeds) + 1) |->
        SubSeq(content, cut(n - 1) + 1, cut(n) - 1)]

NotBlank(tok) == tok # " "

\* trimmed := strings.TrimSpace(line); trimmed == ""
TrimsToEmpty(line) == SelectSeq(line, NotBlank) = <<>>

\* strings.HasPrefix(trimmed, "//") || HasPrefix(trimmed, "#") || HasPrefix(trimmed, "/*")
IsCommentLine(line) ==
  /\ ~TrimsToEmpty(line)
  /\ Head(SelectSeq(line, NotBlank)) \in {"//", "#"}

IsLongLine(line) == LineLen(line) > 120

\* the counters of the loop over the lines
CommentLines(lines) == Cardinality({k \in 1..Len(lines) : IsCommentLine(lines[k])})

LongLines(lines) == Cardinality({k \in 1..Len(lines) : IsLongLine(lines[k])})

\* float64(a) / float64(b) > 0.2 and the like, on the integers
RatioAbove(a, b, num, den) == a * den > b * num

RatioBelow(a, b, num, den) == a * den < b * num

assessCodeQuality(content) ==
  LET lines == Split(content)
      commentLines == CommentLines(lines)
      longLines == LongLines(lines)
      totalLines == Len(lines)
  IN IF totalLines = 0
     THEN "Unknown"
     ELSE IF RatioAbove(commentLines, totalLines, 2, 10)
               /\ RatioBelow(longLines, totalLines, 1, 10)
          THEN "Good"
          ELSE IF RatioAbove(commentLines, totalLines, 1, 10)
                    /\ RatioBelow(longLines, totalLines, 2, 10)
               THEN "Fair"
               ELSE "Needs Improvement"

\* strings.Count(strings.ToLower(content), keyword) summed over the keywords:
\* of the ten, the tokens can spell only "if"
complexityCount(content) == Cardinality({k \in 1..Len(content) : content[k] = "IF"})

assessComplexity(content) ==
  LET lines == Len(Split(content))
  IN IF lines = 0
     THEN "Unknown"
     ELSE IF RatioAbove(complexityCount(content), lines, 1, 10)
          THEN "High"
          ELSE IF RatioAbove(complexityCount(content), lines, 5, 100)
               THEN "Medium"
               ELSE "Low"

\* the service is asked to score a content
ScorerInit ==
  /\ config = BaseConfig
  /\ cancelled = FALSE
  /\ pc = "GetUser"
  /\ calls = <<>>
  /\ userInfo = NoUser
  /\ page = 0
  /\ allRepos = <<>>
  /\ repositories = <<>>
  /\ originalRepos = <<>>
  /\ forkedRepos = <<>>
  /\ analysisRepos = <<>>
  /\ idx = 0
  /\ pending = <<>>
  /\ commitDetails = <<>>
  /\ codeFiles = <<>>
  /\ fileAnalyses = <<>>
  /\ allCommits = <<>>
  /\ allFileAnalyses = <<>>
  /\ analyzedRepos = <<>>
  /\ reposWithErrors = <<>>
  /\ result = NoResult
  /\ err = ""
  /\ rng = 1
  /\ samples = <<>>
  /\ ui = UIIdle
  /\ ctrl = Idle("", 0)
  /\ \E content \in Contents : scorer = [NotScored EXCEPT !.content = content]
  /\ store = NoStore

\* s.assessCodeQuality(content) and s.assessComplexity(content)
Assess ==
  /\ ~scorer.scored
  /\ scorer' = [scorer EXCEPT !.scored = TRUE,
                              !.quality = assessCodeQuality(scorer.content),
                              !.complexity = assessComplexity(scorer.content)]
  /\ UNCHANGED <<auditVars, ctrlVars, store, result, err>>

ScorerNext == Assess

ScorerSpec == ScorerInit /\ [][ScorerNext]_vars

\* ------------------------------------------------------ the configuration file
\* config.SaveConfig and config.LoadConfig on the one file of the user.
MaxSaves == 2      \* calls of SaveConfig

\* dto.OpenAIConfig values: the key, the model and the three custom texts
OpenAIConfigs ==
  [APIKey : APIKeys, Model : {"gpt-4o"}, SystemPrompt : {"", "my prompt"},
   HTMLTemplate : {"", "my template"}, CSSStyles : {"", "my styles"}]

\* the configurations handed to SaveConfig
StoredGitHubConfigs ==
  {[BaseConfig EXCEPT !.Token = t, !.SaveDebugJSON = b, !.SampledRepoCount = n] :
     t \in Tokens, b \in BOOLEAN, n \in {-1, 1}}

Configs == [GitHub : StoredGitHubConfigs, OpenAI : OpenAIConfigs]

\* DefaultConfig(): dto.DefaultGitHubConfig() and dto.DefaultOpenAIConfig()
DefaultConfig ==
  [GitHub |-> [Token |-> "", SampledRepoCount |-> 10, CommitsPerRepo |-> 50,
               SampleFileCount |-> 3, AnalysisYears |-> 5,
               IncludePrivateRepo |-> FALSE, RandomSeed |-> 42,
               SaveDebugJSON |-> FALSE],
   OpenAI |-> [APIKey |-> "", Model |-> "gpt-4o", SystemPrompt |-> "",
               HTMLTemplate |-> "", CSSStyles |-> ""]]

\* the initialisation vectors EncryptString may draw
IVs == {1, 2}

\* utils.EncryptString under the machine's key with a fresh vector, and
\* utils.DecryptString
EncryptString(text, iv) == [iv |-> iv, sealed |-> text]

DecryptString(data) == data.sealed

\* utils.EncodeBase64 and utils.DecodeBase64
EncodeBase64(data) == [base64 |-> data]

DecodeBase64(text) == text.base64

\* a string of the file that is the text itself
PlainText(text) == [text |-> text]

\* the secret as SaveConfig puts it into the copy: empty stays empty
Sealed(secret, iv) ==
  IF secret # "" THEN EncodeBase64(EncryptString(secret, iv)) ELSE PlainText("")

\* the secret as LoadConfig takes it from the file
Unsealed(field) ==
  IF field # PlainText("") THEN DecryptString(DecodeBase64(field)) ELSE ""

\* configCopy of SaveConfig: the GitHub fields one by one, of OpenAI the
\* model and the sealed key, every other field of the copy left at zero
ConfigCopy(cfg, tokenIV, keyIV) ==
  [GitHub |-> [cfg.GitHub EXCEPT !.Token = Sealed(cfg.GitHub.Token, tokenIV)],
   OpenAI |-> [APIKey |-> Sealed(cfg.OpenAI.APIKey, keyIV),
               Model |-> cfg.OpenAI.Model,
               SystemPrompt |-> "", HTMLTemplate |-> "", CSSStyles |-> ""]]

\* json.MarshalIndent of a Config: the fields under their json names
MarshalConfig(cfg) ==
  [github |-> [token |-> cfg.GitHub.Token,
               sampled_repo_count |-> cfg.GitHub.SampledRepoCount,
               commits_per_repo |-> cfg.GitHub.CommitsPerRepo,
               sample_file_count |-> cfg.GitHub.SampleFileCount,
               analysis_years |-> cfg.GitHub.AnalysisYears,
               include_private_repos |-> cfg.GitHub.IncludePrivateRepo,
               random_seed |-> cfg.GitHub.RandomSeed,
               save_debug_json |-> cfg.GitHub.SaveDebugJSON],
   openai |-> [api_key |-> cfg.OpenAI.APIKey, model |-> cfg.OpenAI.Model,
               system_prompt |-> cfg.OpenAI.SystemPrompt,
               html_template |-> cfg.OpenAI.HTMLTemplate,
               css_styles |-> cfg.OpenAI.CSSStyles]]

\* json.Unmarshal into a Config
UnmarshalConfig(data) ==
  [GitHub |-> [Token |-> data.github.token,
               SampledRepoCount |-> data.github.sampled_repo_count,
               CommitsPerRepo |-> data.github.commits_per_repo,
               SampleFileCount |-> data.github.sample_file_count,
               AnalysisYears |-> data.github.analysis_years,
               IncludePrivateRepo |-> data.github.include_private_repos,
               RandomSeed |-> data.github.random_seed,
               SaveDebugJSON |-> data.github.save_debug_json],
   OpenAI |-> [APIKey |-> data.openai.api_key, Model |-> data.openai.model,
               SystemPrompt |-> data.openai.system_prompt,
               HTMLTemplate |-> data.openai.html_template,
               CSSStyles |-> data.openai.css_styles]]

\* the Config LoadConfig returns for the data of the file
Decrypted(cfg) ==
  [GitHub |-> [cfg.GitHub EXCEPT !.Token = Unsealed(cfg.GitHub.Token)],
   OpenAI |-> [cfg.OpenAI EXCEPT !.APIKey = Unsealed(cfg.OpenAI.APIKey)]]

\* the application before its first SaveConfig, the file not yet there
StoreInit ==
  /\ config = BaseConfig
  /\ cancelled = FALSE
  /\ pc = "GetUser"
  /\ calls = <<>>
  /\ userInfo = NoUser
  /\ page = 0
  /\ allRepos = <<>>
  /\ repositories = <<>>
  /\ originalRepos = <<>>
  /\ forkedRepos = <<>>
  /\ analysisRepos = <<>>
  /\ idx = 0
  /\ pending = <<>>
  /\ commitDetails = <<>>
  /\ codeFiles = <<>>
  /\ fileAnalyses = <<>>
  /\ allCommits = <<>>
  /\ allFileAnalyses = <<>>
  /\ analyzedRepos = <<>>
  /\ reposWithErrors = <<>>
  /\ result = NoResult
  /\ err = ""
  /\ rng = 1
  /\ samples = <<>>
  /\ ui = UIIdle
  /\ ctrl = Idle("", 0)
  /\ OfflineInit

\* SaveConfig(config): the directory, the copy with the sealed secrets, the
\* file written; any of its steps may fail and then the file is as before
SaveConfig ==
  /\ store.saves < MaxSaves
  /\ \E cfg \in Configs :
       \/ \E tokenIV, keyIV \in IVs :
            store' = [store EXCEPT
                        !.file = [exists |-> TRUE,
                                  data |-> MarshalConfig(ConfigCopy(cfg, tokenIV, keyIV))],
                        !.saved = cfg, !.loaded = NoConfig, !.err = "",
                        !.saves = @ + 1]
       \/ store' = [store EXCEPT !.err = "failed to write config file",
                                 !.loaded = NoConfig, !.saves = @ + 1]
  /\ UNCHANGED <<auditVars, ctrlVars, scorer, result, err>>

\* LoadConfig(): the defaults when there is no file, else the file read,
\* parsed and its secrets decrypted; reading may fail
LoadConfig ==
  /\ store.loaded = NoConfig
  /\ \/ store' = [store EXCEPT
                    !.loaded = IF store.file.exists
                               THEN Decrypted(UnmarshalConfig(store.file.data))
                               ELSE DefaultConfig,
                    !.err = ""]
     \/ /\ store.file.exists
        /\ store.err # "failed to read config file"
        /\ store' = [store EXCEPT !.err = "failed to read config file"]
  /\ UNCHANGED <<auditVars, ctrlVars, scorer, result, err>>

StoreNext ==
  \/ SaveConfig
  \/ LoadConfig

StoreSpec == StoreInit /\ [][StoreNext]_vars

\* ------------------------------------------------- the configuration dialog
\* DialogSpec: the analysis run together with the save button of the
\* configuration dialog, which the window offers while an analysis runs.
\* The save is one step of the UI thread; the goroutine of the analysis reads
\* the controller's fields at its own steps.

\* what the save leaves unchanged of the audit: all but the configuration
\* of the service
auditRunVars ==
  <<cancelled, pc, calls, userInfo, page, allRepos, repositories,
    originalRepos, forkedRepos, analysisRepos, idx, pending, commitDetails,
    codeFiles, fileAnalyses, allCommits, allFileAnalyses, analyzedRepos,
    reposWithErrors, rng, samples>>

\* the GitHub configurations the dialog is saved with
DialogConfigs == {[BaseConfig EXCEPT !.SaveDebugJSON = b] : b \in BOOLEAN}

\* saveConfigFromDialog: GetConfig may fail on a number; else ctrl.config gets
\* the new parts, and when SaveConfig succeeds both services are made anew
SaveConfigFromDialog ==
  /\ ctrl.saves < MaxSaves
  /\ \/ /\ ui' = ShowError(ui, "invalid configuration")
        /\ ctrl' = [ctrl EXCEPT !.saves = @ + 1]
        /\ UNCHANGED config
     \/ \E github \in DialogConfigs, key \in APIKeys :
          \/ /\ ui' = ShowError(ui, "failed to save configuration")
             /\ ctrl' = [ctrl EXCEPT !.SaveDebugJSON = github.SaveDebugJSON,
                                     !.APIKey = key, !.saves = @ + 1]
             /\ UNCHANGED config
          \/ /\ ui' = ShowInformation(ui, "Configuration Saved")
             /\ ctrl' = [ctrl EXCEPT !.SaveDebugJSON = github.SaveDebugJSON,
                                     !.APIKey = key, !.client = (key # ""),
                                     !.saves = @ + 1]
             /\ config' = github
  /\ UNCHANGED <<auditRunVars, offlineVars, result, err>>

DialogNext ==
  \/ ControllerNext
  \/ SaveConfigFromDialog

DialogSpec == ControllerInit /\ [][DialogNext]_vars

\* the analysis run with its goroutine scheduled: the Go scheduler runs a
\* goroutine that can run, and each call the goroutine makes returns
GoroutineStep ==
  \/ PerformAudit
  \/ GenerateReport
  \/ AnalyzeGitHubData
  \/ SaveHTMLReport

ControllerFairSpec == ControllerSpec /\ WF_vars(GoroutineStep)

\* ------------------------------------------------------------- properties
InSeq(x, s) == \E k \in 1..Len(s) : s[k] = x

\* PerformFullAudit has returned (result, nil)
Succeeded == pc = "returned" /\ err = ""

\* the calls of one kind made for the repository called name
CallsOf(op, name) == {k \in 1..Len(calls) : calls[k].op = op /\ calls[k].repo = name}

Failed(op, name) == \E k \in CallsOf(op, name) : ~calls[k].ok

Answered(op, name) == \E k \in CallsOf(op, name) : calls[k].ok

\* ListCommits answered for name with at least one commit, resp. with none
GotCommits(name) == \E k \in CallsOf("ListCommits", name) : calls[k].ok /\ calls[k].arg > 0

GotNoCommits(name) == \E k \in CallsOf("ListCommits", name) : calls[k].ok /\ calls[k].arg = 0

\* the names of the repositories selected for the detailed analysis
Selected == {repositories[analysisRepos[k]].Name : k \in 1..Len(analysisRepos)}

CommitsOfRepo(name) == {k \in 1..Len(allCommits) : allCommits[k].Repo = name}

FilesOfRepo(name) == {k \in 1..Len(allFileAnalyses) : allFileAnalyses[k].Repo = name}

Names == 1..Len(repositories)

\* C1: in every result returned without error TotalReposAttempted equals
\* len(ReposAnalyzedForCode) + len(ReposWithErrors), whatever the
\* per-repository outcomes were.
C1_AttemptedIsAnalyzedPlusErrors ==
  Succeeded =>
    result.AnalysisSummary.TotalReposAttempted =
      Len(result.AnalysisSummary.ReposAnalyzedForCode)
      + Len(result.AnalysisSummary.ReposWithErrors)

\* C2: once the context is cancelled while remote calls are still to be
\* made, PerformFullAudit returns an error and no result.
C2_CancelledReturnsError ==
  (pc = "returned" /\ cancelled) => (err # "" /\ result = NoResult)

\* C3: a failed profile fetch is the only call of the audit, a failed
\* repository-list fetch is followed by no per-repository call, and either
\* makes PerformFullAudit return an error and a nil result.
C3_FatalFetchAborts ==
  /\ Failed("Users.Get", 0) =>
       /\ Len(calls) = 1
       /\ pc = "returned" /\ err # "" /\ result = NoResult
  /\ Failed("Repositories.List", 0) =>
       /\ ~calls[Len(calls)].ok /\ calls[Len(calls)].op = "Repositories.List"
       /\ \A k \in 1..Len(calls) : calls[k].op \in {"Users.Get", "Repositories.List"}
       /\ pc = "returned" /\ err # "" /\ result = NoResult

\* the repository list failed on its second page, after a first page arrived
C3_Witness ==
  /\ pc = "returned"
  /\ Len(allRepos) > 0
  /\ \E k \in CallsOf("Repositories.List", 0) : ~calls[k].ok /\ calls[k].arg = 2

\* C4: a selected repository whose commit fetch failed is in ReposWithErrors
\* and not in ReposAnalyzedForCode, has no CommitDetails and no FileAnalysis
\* entry and no commit-detail, tree or content call; the audit still visits
\* every selected repository and returns a result with a nil error.
C4_CommitErrorRecorded ==
  \A name \in Names :
    Failed("ListCommits", name) =>
      /\ InSeq(name, reposWithErrors)
      /\ ~InSeq(name, analyzedRepos)
      /\ CommitsOfRepo(name) = {} /\ FilesOfRepo(name) = {}
      /\ CallsOf("GetCommit", name) = {}
      /\ CallsOf("GetTree", name) = {}
      /\ CallsOf("GetContents", name) = {}
      /\ pc = "returned" =>
           /\ err = "" /\ result # NoResult
           /\ InSeq(name, result.AnalysisSummary.ReposWithErrors)
           /\ ~InSeq(name, result.AnalysisSummary.ReposAnalyzedForCode)
           /\ \A k \in 1..Len(result.CommitDetails) : result.CommitDetails[k].Repo # name
           /\ \A k \in 1..Len(result.FileAnalysis) : result.FileAnalysis[k].Repo # name
           /\ \A other \in Selected : CallsOf("ListCommits", other) # {}

\* the first selected repository failed its commit fetch and the second one
\* was analysed
C4_Witness ==
  /\ Succeeded
  /\ Len(analysisRepos) = 2
  /\ Failed("ListCommits", repositories[analysisRepos[1]].Name)
  /\ InSeq(repositories[analysisRepos[2]].Name, result.AnalysisSummary.ReposAnalyzedForCode)

\* C5: a selected repository whose commit fetch returned commits and whose
\* tree fetch failed is in ReposWithErrors and not in ReposAnalyzedForCode,
\* keeps IncludeAnalysis false, has no FileAnalysis entry, and all its
\* commits are in CommitDetails of the returned result.
C5_TreeErrorKeepsCommits ==
  \A name \in Names :
    (GotCommits(name) /\ Failed("GetTree", name)) =>
      /\ InSeq(name, reposWithErrors)
      /\ ~InSeq(name, analyzedRepos)
      /\ ~repositories[name].IncludeAnalysis
      /\ FilesOfRepo(name) = {}
      /\ \A k \in CallsOf("ListCommits", name) :
           Cardinality(CommitsOfRepo(name)) = calls[k].arg
      /\ pc = "returned" =>
           /\ err = ""
           /\ InSeq(name, result.AnalysisSummary.ReposWithErrors)
           /\ ~InSeq(name, result.AnalysisSummary.ReposAnalyzedForCode)
           /\ \A k \in 1..Len(result.FileAnalysis) : result.FileAnalysis[k].Repo # name
           /\ \A k \in CallsOf("ListCommits", name) :
                Cardinality({c \in 1..Len(result.CommitDetails) :
                               result.CommitDetails[c].Repo = name}) = calls[k].arg
           /\ \A r \in Range(result.RepoStats.OriginalRepos)
                       \cup Range(result.RepoStats.ForkedRepos) :
                r.Name = name => ~r.IncludeAnalysis /\ r.FileCount = 0

\* a result that holds two commits of a repository whose tree fetch failed
C5_Witness ==
  /\ Succeeded
  /\ \E name \in Names :
       /\ Failed("GetTree", name)
       /\ Cardinality({c \in 1..Len(result.CommitDetails) :
                         result.CommitDetails[c].Repo = name}) = 2

\* C6: a selected repository whose commit fetch succeeded with zero commits
\* is in neither ReposAnalyzedForCode nor ReposWithErrors, has no
\* CommitDetails and no FileAnalysis entry, and no commit-detail, tree or
\* content call is made for it.
C6_ZeroCommitsSkipped ==
  \A name \in Names :
    GotNoCommits(name) =>
      /\ ~InSeq(name, reposWithErrors)
      /\ ~InSeq(name, analyzedRepos)
      /\ CommitsOfRepo(name) = {} /\ FilesOfRepo(name) = {}
      /\ CallsOf("GetCommit", name) = {}
      /\ CallsOf("GetTree", name) = {}
      /\ CallsOf("GetContents", name) = {}
      /\ Succeeded =>
           /\ ~InSeq(name, result.AnalysisSummary.ReposWithErrors)
           /\ ~InSeq(name, result.AnalysisSummary.ReposAnalyzedForCode)
           /\ \A k \in 1..Len(result.CommitDetails) : result.CommitDetails[k].Repo # name
           /\ \A k \in 1..Len(result.FileAnalysis) : result.FileAnalysis[k].Repo # name

\* a result after one repository had no commits and another was analysed
C6_Witness ==
  /\ Succeeded
  /\ \E name \in Selected : GotNoCommits(name)
  /\ result.AnalysisSummary.ReposAnalyzedForCode # <<>>

\* the part of the state a language fetch may not touch when it fails
C7_Untouched ==
  <<repositories, reposWithErrors, analyzedRepos, analysisRepos, idx,
    allCommits, allFileAnalyses, result, err>>

\* C7: a failed language fetch leaves the repository's LanguagesUsed empty
\* and every other part of the audit untouched, adds nothing to
\* ReposWithErrors, and is followed by the commit fetch of the same
\* repository, as a successful one is.
C7_LanguageErrorIgnored ==
  /\ [](\A name \in Names :
          Failed("ListLanguages", name) => repositories[name].LanguagesUsed = <<>>)
  /\ [][(pc = "ListLanguages" /\ calls' # calls) =>
          /\ pc' = "ListCommits"
          /\ reposWithErrors' = reposWithErrors
          /\ idx' = idx
          /\ ~calls'[Len(calls')].ok => C7_Untouched' = C7_Untouched]_vars

\* a repository whose language fetch failed is in ReposAnalyzedForCode
C7_Witness ==
  /\ Succeeded
  /\ \E name \in Names :
       /\ Failed("ListLanguages", name)
       /\ InSeq(name, result.AnalysisSummary.ReposAnalyzedForCode)
       /\ result.FileAnalysis # <<>>

\* the repository records of a result
ResultRecords ==
  Range(result.RepoStats.OriginalRepos) \cup Range(result.RepoStats.ForkedRepos)

\* C8: in a successful result a repository is in ReposAnalyzedForCode iff its
\* record has IncludeAnalysis = true iff it is a selected repository whose
\* commit fetch returned at least one commit and whose tree fetch succeeded.
C8_AnalyzedIffIncluded ==
  Succeeded =>
    /\ \A r \in ResultRecords :
         r.IncludeAnalysis <=> InSeq(r.Name, result.AnalysisSummary.ReposAnalyzedForCode)
    /\ \A name \in Names :
         InSeq(name, result.AnalysisSummary.ReposAnalyzedForCode)
           <=> (name \in Selected /\ GotCommits(name) /\ Answered("GetTree", name))
    /\ \A name \in Names :
         InSeq(name, result.AnalysisSummary.ReposAnalyzedForCode)
           => \E r \in ResultRecords : r.Name = name /\ r.IncludeAnalysis

\* a result with one repository analysed and one selected but not analysed
C8_Witness ==
  /\ Succeeded
  /\ Len(result.AnalysisSummary.ReposAnalyzedForCode) = 1
  /\ Len(analysisRepos) = 2
  /\ \E r \in ResultRecords : r.IncludeAnalysis

\* C9: in a successful result OriginalRepos + ForkedRepos = TotalRepos, and
\* every fetched repository is in exactly one of the two lists, the one its
\* fork flag names, recent or not.
C9_ForkPartition ==
  Succeeded =>
    LET st == result.RepoStats.Statistics
        orig == result.RepoStats.OriginalRepos
        fork == result.RepoStats.ForkedRepos
    IN /\ st.OriginalRepos + st.ForkedRepos = st.TotalRepos
       /\ st.TotalRepos = Len(allRepos)
       /\ st.OriginalRepos = Len(orig) /\ st.ForkedRepos = Len(fork)
       /\ \A k \in 1..Len(allRepos) :
            /\ Cardinality({a \in 1..Len(orig) : orig[a].Name = k})
                 = (IF allRepos[k].Fork THEN 0 ELSE 1)
            /\ Cardinality({a \in 1..Len(fork) : fork[a].Name = k})
                 = (IF allRepos[k].Fork THEN 1 ELSE 0)
       /\ \A a \in 1..Len(orig) : ~orig[a].Fork
       /\ \A a \in 1..Len(fork) : fork[a].Fork

\* a result for a stale original repository and a fork
C9_Witness ==
  /\ Succeeded
  /\ \E k \in 1..Len(allRepos) :
       ~allRepos[k].Fork /\ allRepos[k].UpdatedAt <= Now - config.AnalysisYears
  /\ \E k \in 1..Len(allRepos) : allRepos[k].Fork
  /\ result.RepoStats.Statistics.TotalRepos = 2

\* the fetched repositories updated after the cutoff
RecentFetched ==
  {k \in 1..Len(allRepos) : allRepos[k].UpdatedAt > Now - config.AnalysisYears}

\* C10: in a successful result AnalysisRepos is at most TotalRepos and equals
\* min(number of repositories updated after the cutoff, SampledRepoCount),
\* whatever happened to the selected repositories afterwards.
C10_AnalysisReposIsCandidateCount ==
  Succeeded =>
    /\ result.RepoStats.Statistics.AnalysisRepos <= result.RepoStats.Statistics.TotalRepos
    /\ result.RepoStats.Statistics.AnalysisRepos
         = Min(Cardinality(RecentFetched), config.SampledRepoCount)

\* two recent repositories, one selected, and that one failed
C10_Witness ==
  /\ Succeeded
  /\ Cardinality(RecentFetched) = 2
  /\ config.SampledRepoCount = 1
  /\ result.RepoStats.Statistics.AnalysisRepos = 1
  /\ result.AnalysisSummary.ReposAnalyzedForCode = <<>>

\* C11: when more repositories pass the recency filter than SampledRepoCount,
\* the selection holds SampledRepoCount distinct candidates and no candidate
\* left out was updated strictly later than a selected one; stars, names and
\* list order play no part.  (A negative SampledRepoCount selects nothing:
\* the slice expression panics.)
C11_LatestSelected ==
  /\ pc = "panicked" => config.SampledRepoCount < 0
  /\ (pc \in {"ListLanguages", "Stats"}
        /\ Cardinality(RecentFetched) > config.SampledRepoCount) =>
       /\ Len(analysisRepos) = config.SampledRepoCount
       /\ Cardinality(Range(analysisRepos)) = config.SampledRepoCount
       /\ Range(analysisRepos) \subseteq RecentFetched
       /\ \A a \in Range(analysisRepos) :
          \A b \in RecentFetched \ Range(analysisRepos) :
            ~(allRepos[b].UpdatedAt > allRepos[a].UpdatedAt)

\* two of three candidates selected: the one left out is the first of the
\* list and has the most stars, and the selection is not in list order
C11_Witness ==
  /\ pc = "ListLanguages"
  /\ Cardinality(RecentFetched) = 3
  /\ config.SampledRepoCount = 2
  /\ analysisRepos = <<3, 2>>
  /\ allRepos[1].Stars = 9 /\ allRepos[2].Stars = 0 /\ allRepos[3].Stars = 0
  /\ allRepos[2].UpdatedAt < allRepos[3].UpdatedAt

\* the fetched repositories not updated after the cutoff
StaleFetched ==
  {k \in 1..Len(allRepos) : allRepos[k].UpdatedAt <= Now - config.AnalysisYears}

\* C12: a repository whose UpdatedAt is not after now minus AnalysisYears is
\* never selected, so it is not counted in AnalysisRepos, is in neither
\* ReposAnalyzedForCode nor ReposWithErrors, and no per-repository call
\* (language, commit, commit detail, tree, content) is made for it.
C12_StaleNeverAnalyzed ==
  \A k \in StaleFetched :
    /\ ~InSeq(k, analysisRepos)
    /\ ~InSeq(k, analyzedRepos) /\ ~InSeq(k, reposWithErrors)
    /\ \A c \in 1..Len(calls) : calls[c].repo # k
    /\ Succeeded =>
         /\ result.RepoStats.Statistics.AnalysisRepos
              <= Len(allRepos) - Cardinality(StaleFetched)
         /\ ~InSeq(k, result.AnalysisSummary.ReposAnalyzedForCode)
         /\ ~InSeq(k, result.AnalysisSummary.ReposWithErrors)
         /\ \A r \in ResultRecords : r.Name = k => ~r.IncludeAnalysis

\* a result for a repository updated exactly at the cutoff, listed first,
\* and a recent one that was analysed
C12_Witness ==
  /\ Succeeded
  /\ Len(allRepos) = 2
  /\ allRepos[1].UpdatedAt = Now - config.AnalysisYears
  /\ config.SampledRepoCount >= 1
  /\ result.RepoStats.Statistics.AnalysisRepos = 1
  /\ result.AnalysisSummary.ReposAnalyzedForCode = <<2>>

\* the FileAnalysis entries of a result for the repository called name
EntriesOf(name) == {f \in 1..Len(result.FileAnalysis) : result.FileAnalysis[f].Repo = name}

\* the content requests made for name, and those that were answered
ContentsRequested(name) == CallsOf("GetContents", name)

ContentsFetched(name) == {c \in CallsOf("GetContents", name) : calls[c].ok}

\* C13 as stated: in a successful result a repository whose tree fetch
\* succeeded has exactly min(SampleFileCount, number of code-file blobs)
\* FileAnalysis entries.
C13_ExactlyMinEntries ==
  Succeeded =>
    \A name \in Names : \A k \in CallsOf("GetTree", name) :
      calls[k].ok =>
        Cardinality(EntriesOf(name)) = Min(config.SampleFileCount, calls[k].arg)

\* C13 amended: for SampleFileCount >= 0 a repository whose tree fetch
\* succeeded gets one content request per sampled file, that is
\* min(SampleFileCount, number of code-file blobs) requests, and its
\* FileAnalysis entries are the files whose request was answered, in request
\* order: at most that minimum, and exactly it when every request is
\* answered.  With a negative SampleFileCount the sampling panics and the
\* repository gets no entry.
C13_EntriesAreFetchedSamples ==
  \A name \in Names : \A k \in CallsOf("GetTree", name) :
    calls[k].ok =>
      IF config.SampleFileCount < 0
      THEN pc = "panicked" /\ FilesOfRepo(name) = {}
      ELSE LET want == Min(config.SampleFileCount, calls[k].arg)
           IN /\ Cardinality(ContentsRequested(name)) <= want
              /\ InSeq(name, analyzedRepos) =>
                   /\ Cardinality(ContentsRequested(name)) = want
                   /\ Cardinality(FilesOfRepo(name)) = Cardinality(ContentsFetched(name))
                   /\ Cardinality(FilesOfRepo(name)) <= want
                   /\ \A f \in FilesOfRepo(name) :
                        \E c \in ContentsFetched(name) :
                          calls[c].arg = allFileAnalyses[f].Path
                   /\ \A f, g \in FilesOfRepo(name) :
                        f < g =>
                          \E c, d \in ContentsFetched(name) :
                            /\ c < d
                            /\ calls[c].arg = allFileAnalyses[f].Path
                            /\ calls[d].arg = allFileAnalyses[g].Path
                   /\ repositories[name].FileCount = Cardinality(FilesOfRepo(name))
              /\ Succeeded =>
                   /\ InSeq(name, analyzedRepos)
                   /\ Cardinality(EntriesOf(name)) = Cardinality(ContentsFetched(name))

\* a result with one entry for a repository with two sampled files, the
\* content of the other one did not arrive
C13_Witness ==
  /\ Succeeded
  /\ config.SampleFileCount = 2
  /\ \E name \in Names :
       /\ \E k \in CallsOf("GetTree", name) : calls[k].ok /\ calls[k].arg = 2
       /\ Failed("GetContents", name)
       /\ Cardinality(EntriesOf(name)) = 1

PathsOf(entries) == [k \in 1..Len(entries) |-> entries[k].Path]

IsContentsCall(c) == c.op = "GetContents"

\* the latest answered GetTree call, 0 when there is none
LastTree ==
  LET answered == {k \in 1..Len(calls) : calls[k].op = "GetTree" /\ calls[k].ok}
  IN IF answered = {} THEN 0 ELSE CHOOSE k \in answered : \A m \in answered : m <= k

\* the paths requested since the latest answered GetTree call, in order
RequestedSinceTree ==
  LET since == SelectSeq(SubSeq(calls, LastTree + 1, Len(calls)), IsContentsCall)
  IN [k \in 1..Len(since) |-> since[k].arg]

\* the paths of the current repository still to be requested
StillToRequest == IF pc = "GetContents" THEN PathsOf(codeFiles) ELSE <<>>

\* C15: when a tree holds no more code files than SampleFileCount the
\* sampling selects all of them in tree order and leaves the generator
\* alone, and the content requests go out for every one of them in the
\* order the tree listed them.
C15_NoShuffleWhenFew ==
  /\ [](\A a \in 1..Len(samples) :
          Len(samples[a].files) <= samples[a].n =>
            samples[a].selected = samples[a].files /\ ~samples[a].panics)
  /\ [](LastTree # 0 =>
          LET last == samples[Len(samples)]
          IN Len(last.files) <= last.n =>
               RequestedSinceTree \o StillToRequest = PathsOf(last.files))
  /\ [][(Len(samples') = Len(samples) + 1
          /\ Len(samples'[Len(samples')].files) <= samples'[Len(samples')].n) =>
           rng' = rng]_vars

\* a result with both code files of a tree analysed in tree order, under a
\* seed whose shuffle would have exchanged them
C15_Witness ==
  /\ Succeeded
  /\ config.RandomSeed = 7 /\ config.SampleFileCount = 2
  /\ Shuffle(<<1, 2>>, config.RandomSeed) = <<2, 1>>
  /\ PathsOf(result.FileAnalysis) = <<(<<"main", ".", "GO">>), (<<"lib", "/", "b", ".", "cc">>)>>

\* C16: in every successful result AuditParameters.Token is "[REDACTED]",
\* also for an empty configured token, every other field of
\* AuditParameters equals the field of the service's configuration, and no
\* step of the audit changes the token the service holds.
C16_TokenRedacted ==
  /\ [](Succeeded =>
         /\ result.AuditParameters.Token = "[REDACTED]"
         /\ DOMAIN result.AuditParameters = DOMAIN config
         /\ \A f \in DOMAIN config \ {"Token"} :
              result.AuditParameters[f] = config[f])
  /\ [][config'.Token = config.Token]_vars

\* a result of a service configured with an empty token
C16_Witness ==
  /\ Succeeded
  /\ config.Token = ""
  /\ result.AuditParameters.Token = "[REDACTED]"
  /\ result.AuditParameters.AnalysisYears = 1

\* C17: no step of the audit writes UserCommits, so no repository record is
\* ever marked IsSignificant and Statistics.SignificantForks is 0 in every
\* successful result.
C17_NoSignificantForks ==
  /\ \A k \in 1..Len(repositories) :
       repositories[k].UserCommits = 0 /\ ~repositories[k].IsSignificant
  /\ Succeeded =>
       /\ result.RepoStats.Statistics.SignificantForks = 0
       /\ \A r \in ResultRecords : r.UserCommits = 0 /\ ~r.IsSignificant

\* a result with a fork that was analysed with all its commits
C17_Witness ==
  /\ Succeeded
  /\ \E r \in Range(result.RepoStats.ForkedRepos) :
       r.Fork /\ r.IncludeAnalysis /\ r.CommitCount = MaxCommits
  /\ result.RepoStats.Statistics.SignificantForks = 0

\* the place of a kind of call in the pipeline
OpRank(op) ==
  CASE op = "Users.Get" -> 1
    [] op = "Repositories.List" -> 2
    [] op = "ListLanguages" -> 3
    [] op = "ListCommits" -> 4
    [] op = "GetCommit" -> 5
    [] op = "GetTree" -> 6
    [] op = "GetContents" -> 7

PerRepo(c) == OpRank(c.op) >= 3

\* the place of the repository called name in the selection
PosOf(name) ==
  CHOOSE k \in 1..Len(analysisRepos) : repositories[analysisRepos[k]].Name = name

\* C18: the calls of one audit come in pipeline order and none is repeated:
\* the profile first and once, then the pages of the repository list in
\* rising order, then, repository by repository in the order of the
\* selection, the language fetch, the commit fetch with its commit details,
\* the tree fetch and the content fetches; a call is made only after the
\* calls it depends on were answered, and a failed call is never made again.
C18_FixedCallOrder ==
  /\ Len(calls) >= 1 => calls[1].op = "Users.Get"
  /\ \A b \in 1..Len(calls) :
       LET y == calls[b]
       IN /\ b > 1 => calls[1].ok /\ y.op # "Users.Get"
          /\ y.op = "Repositories.List" =>
               y.arg = Cardinality({a \in 1..b : calls[a].op = "Repositories.List"})
          /\ PerRepo(y) =>
               /\ \A a \in 1..(b - 1) : ~PerRepo(calls[a]) => calls[a].ok
               /\ InSeq(y.repo, analysisRepos)
               /\ y.op # "ListLanguages" =>
                    Cardinality(CallsOf("ListLanguages", y.repo)) = 1
               /\ y.op \in {"GetCommit", "GetTree", "GetContents"} =>
                    GotCommits(y.repo)
               /\ y.op = "GetContents" => Answered("GetTree", y.repo)
  /\ \A a, b \in 1..Len(calls) :
       a < b =>
         LET x == calls[a]
             y == calls[b]
         IN /\ OpRank(x.op) <= 2 \/ OpRank(y.op) >= 3
            /\ (PerRepo(x) /\ PerRepo(y)) =>
                 /\ PosOf(x.repo) <= PosOf(y.repo)
                 /\ x.repo = y.repo => OpRank(x.op) <= OpRank(y.op)
                 /\ (x.repo = y.repo /\ x.op = y.op) =>
                      /\ x.op \in {"GetCommit", "GetContents"}
                      /\ x.arg # y.arg
            /\ (x.op = y.op /\ x.op = "Repositories.List") => x.arg < y.arg

\* a finished audit of two repositories listed on two pages, with every
\* kind of call answered for both
C18_Witness ==
  /\ Succeeded
  /\ Cardinality(CallsOf("Repositories.List", 0)) = 2
  /\ Len(analysisRepos) = 2
  /\ \A name \in Selected :
       /\ Answered("ListLanguages", name)
       /\ Cardinality(CallsOf("GetCommit", name)) = MaxCommits
       /\ Answered("GetTree", name)
       /\ Cardinality(CallsOf("GetContents", name)) = 2

\* C19: when the audit succeeded and the LLM analysis fails, the goroutine
\* shows an information dialog, not an error, goes on to the fallback and
\* ends normally: the results pane shows the JSON of the audit result, the
\* status says the analysis completed, the progress bar is hidden and the
\* analyze button is enabled again.
C19_LLMFailureShowsJSON ==
  /\ [](ctrl.llmErr # "" =>
         /\ ctrl.pc = "idle"
         /\ err = "" /\ result # NoResult
         /\ ui.results = JSONResults(result)
         /\ ui.saveEnabled
         /\ ui.status \in {"Analysis completed with JSON report",
                           "Analysis completed - Configure OpenAI for LLM analysis"}
         /\ ui.analyzeEnabled /\ ~ui.progress)
  /\ [][(ctrl.llmErr = "" /\ ctrl'.llmErr # "") =>
          /\ Len(ui'.dialogs) = Len(ui.dialogs) + 1
          /\ ui'.dialogs[Len(ui'.dialogs)] =
               [kind |-> "information", text |-> "LLM Analysis Failed"]]_vars

\* the LLM analysis of the audit of octocat failed at the API and the JSON
\* of that audit is shown, after the debug JSON step ran
C19_Witness ==
  /\ ctrl.llmErr = "OpenAI API error"
  /\ config.SaveDebugJSON
  /\ result # NoResult
  /\ ui.results = JSONResults(ResultFor("octocat"))
  /\ ui.status = "Analysis completed with JSON report"

\* C20: every path isCodeFile accepts has a language: detectLanguage does
\* not answer "Unknown" for it.  Stated for the paths of the trees the audit
\* classified.
C20_CodeFileHasLanguage ==
  \A a \in 1..Len(samples) :
    \A f \in Range(samples[a].files) :
      isCodeFile(f.Path) => detectLanguage(f.Path) # "Unknown"

\* C21: the empty content takes the zero-line guard of both scorers:
\* assessCodeQuality("") = "Unknown" and assessComplexity("") = "Unknown".
C21_EmptyIsUnknown ==
  (scorer.scored /\ scorer.content = <<>>) =>
    scorer.quality = "Unknown" /\ scorer.complexity = "Unknown"

\* what the scorers do answer for the empty content, and that no content
\* takes the guard
C21_GuardNeverTaken ==
  scorer.scored =>
    /\ scorer.quality # "Unknown" /\ scorer.complexity # "Unknown"
    /\ scorer.content = <<>> =>
         scorer.quality = "Needs Improvement" /\ scorer.complexity = "Low"

\* the secrets the file holds for the saved configuration
StoredSecrets == {store.file.data.github.token, store.file.data.openai.api_key}

\* C22: a LoadConfig that follows a SaveConfig returns a configuration equal
\* to the saved one in every setting: token, API key, the GitHub sampling
\* parameters, the model, and the custom system prompt, HTML template and
\* CSS styles; and the file never holds the token or the key in plain text.
C22_SaveLoadRoundTrip ==
  /\ (store.saved # NoConfig /\ store.loaded # NoConfig) => store.loaded = store.saved
  /\ (store.file.exists /\ store.saved # NoConfig) =>
       /\ store.saved.GitHub.Token # "" =>
            PlainText(store.saved.GitHub.Token) \notin StoredSecrets
       /\ store.saved.OpenAI.APIKey # "" =>
            PlainText(store.saved.OpenAI.APIKey) \notin StoredSecrets

\* the settings that do come back: everything but the three custom texts,
\* which come back empty
C22_AllButCustomTexts ==
  (store.saved # NoConfig /\ store.loaded # NoConfig) =>
    /\ store.loaded.GitHub = store.saved.GitHub
    /\ store.loaded.OpenAI.APIKey = store.saved.OpenAI.APIKey
    /\ store.loaded.OpenAI.Model = store.saved.OpenAI.Model
    /\ store.loaded.OpenAI.SystemPrompt = ""
    /\ store.loaded.OpenAI.HTMLTemplate = ""
    /\ store.loaded.OpenAI.CSSStyles = ""

\* the record of the repository list built from the k-th fetched repository
ConvertedFrom(k) ==
  /\ repositories[k].Name = k
  /\ repositories[k].Fork = allRepos[k].Fork
  /\ repositories[k].UpdatedAt = allRepos[k].UpdatedAt
  /\ repositories[k].Stars = allRepos[k].Stars

\* C23: ListRepositories requests page after page, each answered page is
\* appended behind the ones before it, and the loop goes on exactly until a
\* response names no next page; then the repositories of all pages are
\* returned in that order.  A failed page request makes the audit return an
\* error with no result, and no repository of the pages fetched before it.
C23_AllPagesOrNothing ==
  /\ [][(pc = "ListRepositories" /\ calls' # calls) =>
          LET c == calls'[Len(calls')]
          IN /\ Len(calls') = Len(calls) + 1
             /\ c.op = "Repositories.List"
             /\ c.arg = Cardinality(CallsOf("Repositories.List", 0)) + 1
             /\ c.ok =>
                  /\ Len(allRepos') >= Len(allRepos)
                  /\ SubSeq(allRepos', 1, Len(allRepos)) = allRepos
                  /\ pc' \in {"ListRepositories", "Filter"}
                  /\ pc' = "ListRepositories" =>
                       page' = c.arg + 1 /\ repositories' = <<>>
                  /\ pc' = "Filter" =>
                       /\ Len(repositories') = Len(allRepos')
                       /\ \A k \in 1..Len(allRepos') : ConvertedFrom(k)'
             /\ ~c.ok =>
                  /\ pc' = "returned" /\ err' # "" /\ result' = NoResult
                  /\ repositories' = <<>>]_vars
  /\ [](Failed("Repositories.List", 0) =>
          /\ repositories = <<>> /\ originalRepos = <<>> /\ forkedRepos = <<>>
          /\ pc = "returned" /\ result = NoResult /\ err # "")
  /\ [](pc \notin {"GetUser", "ListRepositories"} /\ ~Failed("Repositories.List", 0)
          /\ Answered("Repositories.List", 0) =>
          /\ Len(repositories) = Len(allRepos)
          /\ \A k \in 1..Len(allRepos) : ConvertedFrom(k))

\* the second page failed after the first page brought a fork, and nothing
\* of the first page is returned
C23_Witness ==
  /\ pc = "returned" /\ err = "failed to get repositories"
  /\ Len(allRepos) = 1 /\ allRepos[1].Fork
  /\ Cardinality(CallsOf("Repositories.List", 0)) = 2
  /\ repositories = <<>> /\ result = NoResult

\* the names of the records of a list of the result
NamesOf(records) == [k \in 1..Len(records) |-> records[k].Name]

Rising(s) == \A a, b \in 1..Len(s) : a < b => s[a] < s[b]

\* the content request that brought the entry for path in the repository name
RequestOf(name, path) ==
  CHOOSE c \in CallsOf("GetContents", name) : calls[c].ok /\ calls[c].arg = path

\* C24: in a successful result OriginalRepos and ForkedRepos are in the order
\* of the fetched list, whatever the recency sort did to the candidates, and
\* CommitDetails and FileAnalysis hold the entries of one repository next to
\* each other, the repositories in the order they were processed (the order
\* of the selection) and the entries of one repository in the order they
\* were fetched.
C24_EncounterOrder ==
  Succeeded =>
    /\ Rising(NamesOf(result.RepoStats.OriginalRepos))
    /\ Rising(NamesOf(result.RepoStats.ForkedRepos))
    /\ \A a, b \in 1..Len(result.CommitDetails) :
         a < b =>
           LET x == result.CommitDetails[a]
               y == result.CommitDetails[b]
           IN /\ PosOf(x.Repo) <= PosOf(y.Repo)
              /\ x.Repo = y.Repo => x.SHA < y.SHA
    /\ \A a, b \in 1..Len(result.FileAnalysis) :
         a < b =>
           LET x == result.FileAnalysis[a]
               y == result.FileAnalysis[b]
           IN /\ PosOf(x.Repo) <= PosOf(y.Repo)
              /\ x.Repo = y.Repo =>
                   RequestOf(x.Repo, x.Path) < RequestOf(y.Repo, y.Path)

\* three original repositories, the third and the first selected in that
\* order by the sort, both with commits and two files in the result
C24_Witness ==
  /\ Succeeded
  /\ analysisRepos = <<3, 1>>
  /\ NamesOf(result.RepoStats.OriginalRepos) = <<1, 2, 3>>
  /\ NamesOf([k \in 1..Len(result.CommitDetails) |->
                [Name |-> result.CommitDetails[k].Repo]]) = <<3, 1>>
  /\ NamesOf([k \in 1..Len(result.FileAnalysis) |->
                [Name |-> result.FileAnalysis[k].Repo]]) = <<3, 3, 1, 1>>

NoDuplicates(s) == \A a, b \in 1..Len(s) : a # b => s[a] # s[b]

\* C25: in a successful result, repository names being distinct,
\* ReposAnalyzedForCode and ReposWithErrors share no name, neither holds a
\* name twice, and every name in them is that of a selected repository.
C25_SummaryListsDisjoint ==
  Succeeded =>
    LET analyzed == result.AnalysisSummary.ReposAnalyzedForCode
        failed == result.AnalysisSummary.ReposWithErrors
    IN /\ Range(analyzed) \cap Range(failed) = {}
       /\ NoDuplicates(analyzed) /\ NoDuplicates(failed)
       /\ Range(analyzed) \cup Range(failed) \subseteq Selected
       /\ Len(analyzed) + Len(failed) <= Len(analysisRepos)

\* a result with a repository analysed, then one whose tree fetch failed,
\* and a third repository that was not selected
C25_Witness ==
  /\ Succeeded
  /\ Len(allRepos) = 3
  /\ Len(result.AnalysisSummary.ReposAnalyzedForCode) = 1
  /\ Len(result.AnalysisSummary.ReposWithErrors) = 1
  /\ Failed("GetTree", result.AnalysisSummary.ReposWithErrors[1])
  /\ PosOf(result.AnalysisSummary.ReposAnalyzedForCode[1]) = 1

\* the CommitDetails entries of a result for the repository called name
DetailsOf(name) ==
  {c \in 1..Len(result.CommitDetails) : result.CommitDetails[c].Repo = name}

\* C26: in a successful result, repository names being distinct, every
\* repository record has CommitCount equal to the number of CommitDetails
\* entries with its name and FileCount equal to the number of FileAnalysis
\* entries with its name: also the record of a repository that failed, was
\* skipped for having no commits, or was not selected.
C26_CountsMatchEntries ==
  Succeeded =>
    /\ \A r \in ResultRecords :
         /\ r.CommitCount = Cardinality(DetailsOf(r.Name))
         /\ r.FileCount = Cardinality(EntriesOf(r.Name))
    /\ \A name \in Names : \E r \in ResultRecords : r.Name = name
    /\ \A name \in Names :
         (name \notin Selected \/ Failed("ListCommits", name) \/ GotNoCommits(name)) =>
           DetailsOf(name) = {} /\ EntriesOf(name) = {}

\* a result for three repositories: one not selected, one whose tree fetch
\* failed after its commit was fetched, one analysed with a file missing
C26_Witness ==
  /\ Succeeded
  /\ Len(allRepos) = 3 /\ Len(analysisRepos) = 2
  /\ \E r \in ResultRecords :
       Failed("GetTree", r.Name) /\ r.CommitCount = 1 /\ r.FileCount = 0
  /\ \E r \in ResultRecords :
       r.IncludeAnalysis /\ Failed("GetContents", r.Name) /\ r.FileCount = 1

\* C27: for every configuration the configuration window accepts, zero or
\* negative SampledRepoCount and SampleFileCount included, the audit ends by
\* returning a result or an error: it never stops on a slice bound out of
\* range when it truncates the candidate repositories or the code files.
C27_NeverOutOfRange ==
  pc # "panicked"

\* C27, what the code does: the audit stops on a slice bound out of range
\* exactly when the count in use is negative; a count of zero truncates to
\* nothing and the audit goes on, and no audit with a negative
\* SampledRepoCount returns a result.
C27_NegativeCountPanics ==
  /\ pc = "panicked" =>
       \/ config.SampledRepoCount < 0
       \/ config.SampleFileCount < 0
  /\ (pc = "Stats" \/ Succeeded) => config.SampledRepoCount >= 0

\* a step of the analysis goroutine that leaves the place at
GoroutineLeaves(at) == ctrl.pc = at /\ ctrl'.pc # at

\* the audit runs on the service that was there when the button was pressed
AuditAsPressed ==
  GoroutineLeaves("audit") => config = ctrl.pressed.GitHub

\* the debug JSON is written, and the LLM step entered, as the configuration
\* said when the button was pressed
ReportAsPressed ==
  (GoroutineLeaves("report") /\ ui'.status # "Failed to generate report") =>
    /\ ctrl'.debugJSON = ctrl.pressed.SaveDebugJSON
    /\ ctrl'.pc = "llm" <=> ctrl.pressed.APIKey # ""

\* the LLM step uses the service and the key of the time the button was pressed
LLMAsPressed ==
  GoroutineLeaves("llm") =>
    /\ ctrl.client = ctrl.pressed.client
    /\ ctrl.APIKey = ctrl.pressed.APIKey

\* C28: a configuration saved through the dialog while an analysis is in
\* flight does not affect that analysis: its audit, its decision to write the
\* debug JSON, and its LLM step (whether it runs, with which service and key)
\* all use the configuration in effect when the analyze button was pressed.
C28_PressedConfigUsed ==
  [][AuditAsPressed /\ ReportAsPressed /\ LLMAsPressed]_vars

\* the analyze button was tapped with a username that is not blank
Pressed == ctrl.pc = "idle" /\ ctrl'.pc = "audit"

\* C29: pressing Analyze with a non-empty username disables the analyze
\* button, and by whichever path the analysis goroutine ends (audit error,
\* JSON marshalling error, LLM failure, HTML report save failure, success)
\* the progress bar is hidden and the analyze button enabled again: at the
\* step that ends the goroutine, and eventually after every press.
C29_ButtonComesBack ==
  /\ [][Pressed => ~ui'.analyzeEnabled /\ ui'.progress]_vars
  /\ [](ctrl.pc # "idle" => ~ui.analyzeEnabled /\ ui.progress)
  /\ [][(ctrl.pc # "idle" /\ ctrl'.pc = "idle") =>
          ui'.analyzeEnabled /\ ~ui'.progress]_vars
  /\ (ctrl.pc # "idle") ~> (ctrl.pc = "idle" /\ ui.analyzeEnabled /\ ~ui.progress)

\* two runs have ended, the first on an audit error and the second on a
\* failure to save the HTML report, and the button is enabled again
C29_Witness ==
  /\ ctrl.pc = "idle" /\ ctrl.runs = 2
  /\ ui.analyzeEnabled /\ ~ui.progress
  /\ Len(ui.dialogs) = 2
  /\ ui.dialogs[1] = [kind |-> "error", text |-> "analysis failed"]
  /\ ui.dialogs[2] = [kind |-> "error", text |-> "failed to save HTML report"]

\* the detail fetch of this step failed
DetailFetchFailed ==
  /\ pc = "GetCommit"
  /\ Len(calls') = Len(calls) + 1
  /\ ~calls'[Len(calls')].ok

\* C30: inside GetRepositoryCommits a failed fetch of a commit's detail is
\* not an error of the repository: the commit is still returned, with an
\* empty FilesChanged list, the remaining commits are still fetched, and the
\* repository is not added to ReposWithErrors because of it.
C30_DetailFailureTolerated ==
  /\ [][DetailFetchFailed =>
          /\ commitDetails' =
               Append(commitDetails,
                      [Repo |-> repoName, SHA |-> Head(pending), FilesChanged |-> <<>>])
          /\ reposWithErrors' = reposWithErrors
          /\ pending' = Tail(pending)
          /\ pc' = IF Tail(pending) = <<>> THEN "GetTree" ELSE "GetCommit"]_vars
  /\ [](Succeeded =>
         \A name \in Names :
           /\ \A k \in CallsOf("GetCommit", name) :
                ~calls[k].ok =>
                  \E c \in DetailsOf(name) :
                    /\ result.CommitDetails[c].SHA = calls[k].arg
                    /\ result.CommitDetails[c].FilesChanged = <<>>
           /\ Answered("ListCommits", name) =>
                \A k \in CallsOf("ListCommits", name) :
                  Cardinality(CallsOf("GetCommit", name)) = calls[k].arg
           /\ name \in Range(result.AnalysisSummary.ReposWithErrors) =>
                Failed("ListCommits", name) \/ Failed("GetTree", name))

\* a result with a repository whose first detail fetch failed and whose
\* second was answered: both commits are in the result, the first without
\* files, and the repository is among the analysed ones
C30_Witness ==
  /\ Succeeded
  /\ \E name \in Names :
       /\ Failed("GetCommit", name) /\ Answered("GetCommit", name)
       /\ Cardinality(DetailsOf(name)) = 2
       /\ result.CommitDetails[1].Repo = name
       /\ result.CommitDetails[1].FilesChanged = <<>>
       /\ result.CommitDetails[2].FilesChanged # <<>>
       /\ name \in Range(result.AnalysisSummary.ReposAnalyzedForCode)
       /\ name \notin Range(result.AnalysisSummary.ReposWithErrors)

====
